---- MODULE Spec2Model ----
(***************************************************************************)
(* Voice to Drive: the capture / persistence / sync engine.                *)
(*                                                                         *)
(*   Spec          the recording session of RecorderService with the chunk *)
(*                 store and the catalog of js/storage.js, App.handleStop, *)
(*                 App.handleCancel and App.checkForRecovery of            *)
(*                 js/drive.js, and restarts of the page                   *)
(*   SpecSync      the sync queue of js/drive.js (App.syncRecordings and   *)
(*                 its triggers) over the catalog of js/storage.js         *)
(*   SpecRecorderJs  the recording session as js/recorder.js drives it     *)
(***************************************************************************)
EXTENDS Integers, Sequences, FiniteSets, TLC

\* ---------------------------------------------------------------- bounds
MaxRec == 2        \* recordings ever inserted into the catalog
MaxPasses == 2     \* invocations of syncRecordings that can be suspended at once
MaxFileId == 1     \* distinct file ids the remote store hands out
MaxCrashes == 2    \* times the page is closed in the middle of a recording session
MaxFrags == 2      \* fragments the capture device delivers
MaxSessions == 2   \* recording sessions started
MaxStops == 2      \* invocations of handleStop that can be suspended at once
MaxChunks == 2     \* chunk records the store holds at once
MaxConts == 2      \* chunk-store requests in flight at once
MaxTicks == 3      \* steps the clock advances
MaxDepth == 2      \* segments of a folder path
MaxFolders == 3    \* folders the remote store holds
MaxEnsureCalls == 3 \* calls of ensureFolderPath
MaxStoreRetry == 2  \* retryCount of the records the store functions are applied to
MaxFlushFails == 1 \* chunk-store writes that fail

\* ------------------------------------------------------ program constants
MAX_RETRY_COUNT == 5

\* ------------------------------------------------------------------ clock
T0 == 1000         \* Date.now() when the page is opened, in ms
TickMs == 500      \* the clock advances in steps of this many ms

VARIABLES
    \* --- StorageService (js/storage.js): the recordings object store
    recordings,     \* id -> record, the 'recordings' store
    nextId,         \* the autoIncrement key generator of the store
    \* --- App of js/drive.js
    isSyncing,      \* let isSyncing
    pass,           \* slot -> the suspended invocation of syncRecordings
    \* --- environment / DriveService
    online,         \* navigator.onLine
    signedIn,       \* DriveService.isAuthenticated()
    \* --- history
    failures,       \* id -> number of failed uploads whose catch block ran to its end
    lastCall,       \* what the last step did with syncRecordings: "none", "started",
                    \* "noop"; "restarted" for the call of a page just reopened
    \* --- StorageService: the chunks object store, in primary-key order
    chunkStore,
    \* --- RecorderService
    mediaRecorder,  \* the current MediaRecorder: state, onstop, pending stop event
    chunks,         \* let chunks: the fragment buffer
    sessionId,      \* let sessionId (NULL: null)
    chunkSequence,  \* let chunkSequence
    chunkInterval,  \* let chunkInterval holds a timer handle
    timers,         \* number of live setInterval timers calling saveCurrentChunk
    conts,          \* continuations awaiting a chunk-store request, oldest first
    oldStops,       \* pending stop events of replaced MediaRecorder objects
    now,            \* Date.now()
    startTime,      \* let startTime (NULL: null)
    pausedDuration, \* let pausedDuration
    pauseStartTime, \* let pauseStartTime (NULL: null)
    \* --- App
    appPc,          \* position of App.init: recovery, then event listeners; and the
                    \* number of times the page was closed so far
    hstop,          \* slot -> the suspended invocation of handleStop
    \* --- history
    nextFrag,       \* next fragment the device delivers
    nextSession,    \* next session id
    captured,       \* session id -> fragments delivered since its start()
    running,        \* the MediaRecorder of the current session is capturing: started
                    \* or resumed, and neither paused nor stopped since
    recTime,        \* ms of clock time the current session has spent capturing
    cancelled,      \* the sessions that were recording or paused when cancel() was
                    \* called, once that call has completed
    \* --- DriveService
    folderCache,    \* const folderCache: path -> folder id
    driveFolders,   \* the folders of the remote store: id, name, parent
    ensure,         \* the invocation of ensureFolderPath in progress
    \* --- history
    returned,       \* path -> the id ensureFolderPath returned for it, and how often
    ensureCalls,    \* calls of ensureFolderPath so far
    cleared,        \* the count the last clearSyncedRecordings resolved with
    failedFlushes,  \* chunk-store writes of a flush that failed so far
    storeCall       \* the last direct call of a StorageService update and its outcome

catalogVars == <<recordings, nextId>>
syncVars == <<isSyncing, pass, online, signedIn, failures, lastCall>>
recorderVars == <<chunkStore, mediaRecorder, chunks, sessionId, chunkSequence, chunkInterval,
                  timers, conts, oldStops, appPc, hstop, nextFrag, nextSession, captured,
                  now, startTime, pausedDuration, pauseStartTime, running, recTime,
                  cancelled>>

driveVars == <<folderCache, driveFolders, ensure, returned, ensureCalls>>

timeVars == <<now, startTime, pausedDuration, pauseStartTime, running, recTime>>

vars == <<recordings, nextId, isSyncing, pass, online, signedIn, failures, lastCall,
          chunkStore, mediaRecorder, chunks, sessionId, chunkSequence, chunkInterval,
          timers, conts, oldStops, appPc, hstop, nextFrag, nextSession, captured,
          now, startTime, pausedDuration, pauseStartTime, running, recTime, cancelled,
          folderCache, driveFolders, ensure, returned, ensureCalls, cleared,
          failedFlushes, storeCall>>

auxVars == <<failedFlushes, storeCall>>

NoCall == [ op |-> "none", id |-> 0, extras |-> {}, result |-> "none" ]

Slots == 1..MaxPasses
FileIds == 1..MaxFileId
NULL == 0

\* ------------------------------------------------------------ StorageService

\* saveRecording: the record added to the store (storage.js 74-87)
NewRecord(blob, recovered, originalSessionId) ==
    [ blob |-> blob, status |-> "pending", synced |-> 0, retryCount |-> 0,
      driveFileId |-> NULL, recovered |-> recovered,
      originalSessionId |-> originalSessionId ]

\* saveRecording: store.add under the next autoIncrement key
saveRecording(store, id, blob, recovered, originalSessionId) ==
    [ i \in DOMAIN store \cup {id} |->
        IF i = id THEN NewRecord(blob, recovered, originalSessionId) ELSE store[i] ]

\* updateRecordingStatus that writes the status to every record of the store
updateRecordingStatus_everyRecord(store, id, status, driveFileId, retryCount) ==
    [ i \in DOMAIN store |->
        [ store[i] EXCEPT !.status = status,
                          !.synced = IF status = "synced" THEN 1 ELSE 0 ] ]

\* updateRecordingStatus without the mirror of status in the synced flag
updateRecordingStatus_keepFlag(store, id, status, driveFileId, retryCount) ==
    [ store EXCEPT ![id] = [ @ EXCEPT !.status = status,
                                      !.driveFileId = driveFileId,
                                      !.retryCount = retryCount ] ]

\* updateRecordingStatus(id, status, extraFields): extraFields carries the
\* driveFileId and/or the retryCount; a field not passed keeps its value
updateRecordingStatus(store, id, status, driveFileId, retryCount) ==
    [ store EXCEPT ![id] = [ @ EXCEPT !.status = status,
                                      !.synced = IF status = "synced" THEN 1 ELSE 0,
                                      !.driveFileId = driveFileId,
                                      !.retryCount = retryCount ] ]

\* updateRecordingStatus: how its promise settles (store.get finds no record:
\* reject 'Recording not found')
updateRecordingStatusResult(store, id) ==
    IF id \in DOMAIN store THEN "resolved" ELSE "rejected"

\* incrementRetryCount that adds two
incrementRetryCount_twice(store, id) ==
    IF id \notin DOMAIN store THEN store
    ELSE updateRecordingStatus(store, id, store[id].status,
                               store[id].driveFileId, store[id].retryCount + 2)

\* incrementRetryCount that counts down
incrementRetryCount_down(store, id) ==
    IF id \notin DOMAIN store THEN store
    ELSE updateRecordingStatus(store, id, store[id].status,
                               store[id].driveFileId, store[id].retryCount - 1)

\* incrementRetryCount(id): getRecording, then updateRecordingStatus with the
\* status read and retryCount + 1
incrementRetryCount(store, id) ==
    IF id \notin DOMAIN store THEN store
    ELSE updateRecordingStatus(store, id, store[id].status,
                               store[id].driveFileId, store[id].retryCount + 1)

\* the ids index.getAll(IDBKeyRange.only(0)) of the 'synced' index returns,
\* in primary-key order
RECURSIVE IdsFrom(_, _, _)
IdsFrom(store, i, n) ==
    IF i > n THEN <<>>
    ELSE (IF i \in DOMAIN store /\ store[i].synced = 0 THEN <<i>> ELSE <<>>)
         \o IdsFrom(store, i + 1, n)

\* a query that returns every record of the store
getUnsyncedRecordings_all(store) ==
    LET last == IF DOMAIN store = {} THEN 0
                ELSE CHOOSE m \in DOMAIN store : \A j \in DOMAIN store : j <= m
        ids == IdsFrom([ i \in DOMAIN store |-> [ store[i] EXCEPT !.synced = 0 ] ], 1, last)
    IN  [ k \in 1..Len(ids) |-> [ id |-> ids[k], retryCount |-> store[ids[k]].retryCount ] ]

\* a query by status: the pending and the failed records
getUnsyncedRecordings_byStatus(store) ==
    LET last == IF DOMAIN store = {} THEN 0
                ELSE CHOOSE m \in DOMAIN store : \A j \in DOMAIN store : j <= m
        ids == SelectSeq(IdsFrom(store, 1, last),
                         LAMBDA i : store[i].status \in {"pending", "failed"})
    IN  [ k \in 1..Len(ids) |-> [ id |-> ids[k], retryCount |-> store[ids[k]].retryCount ] ]

\* getUnsyncedRecordings: a snapshot (copies) of the unsynced records
getUnsyncedRecordings(store) ==
    LET last == IF DOMAIN store = {} THEN 0
                ELSE CHOOSE m \in DOMAIN store : \A j \in DOMAIN store : j <= m
        ids == IdsFrom(store, 1, last)
    IN  [ k \in 1..Len(ids) |-> [ id |-> ids[k], retryCount |-> store[ids[k]].retryCount ] ]

\* a clearSyncedRecordings that deletes whatever is no longer pending
clearSyncedRecordings_notPending(store) ==
    [ i \in { j \in DOMAIN store : store[j].status = "pending" } |-> store[i] ]

\* clearSyncedRecordings: deletes through the 'synced' index, key 1
clearSyncedRecordings(store) ==
    [ i \in { j \in DOMAIN store : store[j].synced # 1 } |-> store[i] ]

\* clearSyncedRecordings: count, incremented with every cursor.delete()
clearSyncedCount(store) ==
    Cardinality({ j \in DOMAIN store : store[j].synced = 1 })

\* ------------------------------------------------------------ App (drive.js)

\* retried: uploadRecording has signed in again for the item and called itself
IdlePass == [ pc |-> "idle", list |-> <<>>, idx |-> 0, attempted |-> {}, retried |-> FALSE ]

FreeSlots == { t \in Slots : pass[t].pc = "idle" }
FreeSlot == CHOOSE t \in FreeSlots : \A u \in FreeSlots : t <= u

\* syncRecordings with the flag left unset before the first await
syncRecordings_lateGuard(onLine) ==
    IF isSyncing \/ ~onLine \/ ~signedIn
    THEN /\ UNCHANGED <<isSyncing, pass>>
         /\ lastCall' = "noop"
    ELSE /\ isSyncing' = isSyncing
         /\ lastCall' = "started"
         /\ pass' = [ pass EXCEPT ![FreeSlot] = [ IdlePass EXCEPT !.pc = "fetch" ] ]

\* syncRecordings without the test of DriveService.isAuthenticated()
syncRecordings_noAuth(onLine) ==
    IF isSyncing \/ ~onLine
    THEN /\ UNCHANGED <<isSyncing, pass>>
         /\ lastCall' = "noop"
    ELSE /\ isSyncing' = TRUE
         /\ lastCall' = "started"
         /\ pass' = [ pass EXCEPT ![FreeSlot] = [ IdlePass EXCEPT !.pc = "fetch" ] ]

\* syncRecordings, up to its first await: the guard and the flag
\* (onLine: navigator.onLine as the call reads it)
syncRecordings(onLine) ==
    IF isSyncing \/ ~onLine \/ ~signedIn
    THEN /\ UNCHANGED <<isSyncing, pass>>
         /\ lastCall' = "noop"
    ELSE /\ isSyncing' = TRUE
         /\ lastCall' = "started"
         /\ pass' = [ pass EXCEPT ![FreeSlot] = [ IdlePass EXCEPT !.pc = "fetch" ] ]

\* the skip test of the loop
TooManyRetries_off(r) == r.retryCount > MAX_RETRY_COUNT
TooManyRetries(r) == r.retryCount >= MAX_RETRY_COUNT

\* first index at or after i whose snapshot is not skipped (Len + 1: none)
RECURSIVE NextItem(_, _)
NextItem(list, i) ==
    IF i > Len(list) THEN i
    ELSE IF TooManyRetries(list[i]) THEN NextItem(list, i + 1)
    ELSE i

CurId(t) == pass[t].list[pass[t].idx].id

\* setInterval callback of startSyncInterval
TimerTick ==
    /\ FreeSlots # {}
    /\ IF online /\ ~isSyncing
       THEN syncRecordings(online)
       ELSE UNCHANGED <<isSyncing, pass>> /\ lastCall' = "noop"
    /\ UNCHANGED <<recordings, nextId, online, signedIn, failures>>
    /\ UNCHANGED recorderVars
    /\ UNCHANGED driveVars
    /\ UNCHANGED cleared
    /\ UNCHANGED auxVars

\* 'online' event: updateNetworkStatus
Reconnect ==
    /\ FreeSlots # {}
    /\ online' = TRUE
    /\ syncRecordings(TRUE)
    /\ UNCHANGED <<recordings, nextId, signedIn, failures>>
    /\ UNCHANGED recorderVars
    /\ UNCHANGED driveVars
    /\ UNCHANGED cleared
    /\ UNCHANGED auxVars

\* 'offline' event: updateNetworkStatus
Disconnect ==
    /\ online
    /\ online' = FALSE
    /\ UNCHANGED <<recordings, nextId, isSyncing, pass, signedIn, failures>>
    /\ UNCHANGED recorderVars
    /\ UNCHANGED driveVars
    /\ UNCHANGED cleared
    /\ UNCHANGED auxVars
    /\ lastCall' = "none"

\* handleConnectDrive: DriveService.signIn resolves
SignIn ==
    /\ ~signedIn
    /\ signedIn' = TRUE
    /\ UNCHANGED <<recordings, nextId, isSyncing, pass, online, failures>>
    /\ UNCHANGED recorderVars
    /\ UNCHANGED driveVars
    /\ UNCHANGED cleared
    /\ UNCHANGED auxVars
    /\ lastCall' = "none"

\* handleDisconnectDrive: DriveService.signOut
SignOut ==
    /\ signedIn
    /\ signedIn' = FALSE
    /\ UNCHANGED <<recordings, nextId, isSyncing, pass, online, failures>>
    /\ UNCHANGED recorderVars
    /\ UNCHANGED driveVars
    /\ UNCHANGED cleared
    /\ UNCHANGED auxVars
    /\ lastCall' = "none"

\* handleClearSynced
ClearSynced ==
    /\ recordings' = clearSyncedRecordings(recordings)
    /\ cleared' = clearSyncedCount(recordings)
    /\ UNCHANGED auxVars
    /\ UNCHANGED <<nextId, isSyncing, pass, online, signedIn, failures>>
    /\ UNCHANGED recorderVars
    /\ UNCHANGED driveVars
    /\ lastCall' = "none"

\* the tail of handleStop: saveRecording of a non-empty blob, then syncRecordings()
NewRecording ==
    /\ nextId <= MaxRec
    /\ FreeSlots # {}
    /\ recordings' = saveRecording(recordings, nextId, <<1>>, FALSE, NULL)
    /\ nextId' = nextId + 1
    /\ syncRecordings(online)
    /\ UNCHANGED <<online, signedIn, failures>>
    /\ UNCHANGED recorderVars
    /\ UNCHANGED driveVars
    /\ UNCHANGED cleared
    /\ UNCHANGED auxVars

\* a finally block that leaves the flag set
Finally_keepFlag(t) ==
    /\ isSyncing' = isSyncing
    /\ pass' = [ pass EXCEPT ![t] = IdlePass ]

\* the end of a pass: the finally block
Finally(t) ==
    /\ isSyncing' = FALSE
    /\ pass' = [ pass EXCEPT ![t] = IdlePass ]

\* getUnsyncedRecordings resolves; an empty list returns through finally
SyncFetch(t) ==
    /\ pass[t].pc = "fetch"
    /\ LET list == getUnsyncedRecordings(recordings)
       IN  IF Len(list) = 0
           THEN Finally(t)
           ELSE /\ pass' = [ pass EXCEPT ![t].pc = "item", ![t].list = list, ![t].idx = 1 ]
                /\ UNCHANGED isSyncing
    /\ UNCHANGED <<recordings, nextId, online, signedIn, failures>>
    /\ UNCHANGED recorderVars
    /\ UNCHANGED driveVars
    /\ UNCHANGED cleared
    /\ UNCHANGED auxVars
    /\ lastCall' = "none"

\* a head of the loop that goes to the upload without the status update
SyncItem_noMark(t) ==
    /\ pass[t].pc = "item"
    /\ LET j == NextItem(pass[t].list, pass[t].idx)
       IN  IF j > Len(pass[t].list)
           THEN pass' = [ pass EXCEPT ![t].pc = "finishing", ![t].idx = j ]
           ELSE pass' = [ pass EXCEPT ![t].pc = "uploading", ![t].idx = j ]
    /\ UNCHANGED <<recordings, nextId, isSyncing, online, signedIn, failures>>
    /\ UNCHANGED recorderVars
    /\ UNCHANGED driveVars
    /\ UNCHANGED cleared
    /\ UNCHANGED auxVars
    /\ lastCall' = "none"

\* the head of the loop: skip the snapshots with too many retries, then either
\* updateRecordingStatus(id, 'uploading') or leave the loop
SyncItem(t) ==
    /\ pass[t].pc = "item"
    /\ LET j == NextItem(pass[t].list, pass[t].idx)
       IN  IF j > Len(pass[t].list)
           THEN /\ pass' = [ pass EXCEPT ![t].pc = "finishing", ![t].idx = j ]
                /\ UNCHANGED recordings
           ELSE LET id == pass[t].list[j].id
                IN  /\ recordings' = updateRecordingStatus(recordings, id, "uploading",
                                        recordings[id].driveFileId, recordings[id].retryCount)
                    /\ pass' = [ pass EXCEPT ![t].pc = "uploading", ![t].idx = j ]
    /\ UNCHANGED <<nextId, isSyncing, online, signedIn, failures>>
    /\ UNCHANGED recorderVars
    /\ UNCHANGED driveVars
    /\ UNCHANGED cleared
    /\ UNCHANGED auxVars
    /\ lastCall' = "none"

\* a catch block that leaves the loop
Catch_noMark(t) ==
    /\ UNCHANGED recordings
    /\ pass' = [ pass EXCEPT ![t].pc = "incRetry", ![t].attempted = @ \cup {CurId(t)} ]
    /\ UNCHANGED failures

Catch_abort(t) ==
    /\ recordings' = updateRecordingStatus(recordings, CurId(t), "failed",
                        recordings[CurId(t)].driveFileId, recordings[CurId(t)].retryCount)
    /\ pass' = [ pass EXCEPT ![t].pc = "finishing", ![t].attempted = @ \cup {CurId(t)} ]
    /\ UNCHANGED failures

\* the catch block of the loop body, first statement: updateRecordingStatus(id, 'failed')
Catch(t) ==
    /\ recordings' = updateRecordingStatus(recordings, CurId(t), "failed",
                        recordings[CurId(t)].driveFileId, recordings[CurId(t)].retryCount)
    /\ pass' = [ pass EXCEPT ![t].pc = "incRetry", ![t].attempted = @ \cup {CurId(t)} ]
    /\ UNCHANGED failures

\* a pass that gives the flag back when it calls the uploader
SyncUploadCall_release(t) ==
    /\ pass[t].pc = "uploading"
    /\ IF signedIn
       THEN /\ pass' = [ pass EXCEPT ![t].pc = "inflight", ![t].attempted = @ \cup {CurId(t)} ]
            /\ UNCHANGED <<recordings, failures>>
       ELSE Catch(t)
    /\ isSyncing' = FALSE
    /\ UNCHANGED <<nextId, online, signedIn>>
    /\ UNCHANGED recorderVars
    /\ UNCHANGED driveVars
    /\ UNCHANGED cleared
    /\ UNCHANGED auxVars
    /\ lastCall' = "none"

\* DriveService.uploadRecording is called (after updateRecordingsList resolves):
\* it throws at once when not authenticated, else the request goes out
SyncUploadCall(t) ==
    /\ pass[t].pc = "uploading"
    /\ IF signedIn
       THEN /\ pass' = [ pass EXCEPT ![t].pc = "inflight", ![t].attempted = @ \cup {CurId(t)} ]
            /\ UNCHANGED <<recordings, failures>>
       ELSE Catch(t)
    /\ UNCHANGED <<nextId, isSyncing, online, signedIn>>
    /\ UNCHANGED recorderVars
    /\ UNCHANGED driveVars
    /\ UNCHANGED cleared
    /\ UNCHANGED auxVars
    /\ lastCall' = "none"

\* an upload whose file id is not recorded
SyncUploadOk_noId(t) ==
    /\ pass[t].pc = "inflight"
    /\ \E f \in FileIds :
         recordings' = updateRecordingStatus(recordings, CurId(t), "synced", NULL,
                                             recordings[CurId(t)].retryCount)
    /\ pass' = [ pass EXCEPT ![t].pc = "item", ![t].idx = @ + 1, ![t].retried = FALSE ]
    /\ UNCHANGED <<nextId, isSyncing, online, signedIn, failures>>
    /\ UNCHANGED recorderVars
    /\ UNCHANGED driveVars
    /\ UNCHANGED cleared
    /\ UNCHANGED auxVars
    /\ lastCall' = "none"

\* the upload succeeds: updateRecordingStatus(id, 'synced', {driveFileId})
SyncUploadOk(t) ==
    /\ pass[t].pc = "inflight"
    /\ \E f \in FileIds :
         recordings' = updateRecordingStatus(recordings, CurId(t), "synced", f,
                                             recordings[CurId(t)].retryCount)
    /\ pass' = [ pass EXCEPT ![t].pc = "item", ![t].idx = @ + 1, ![t].retried = FALSE ]
    /\ UNCHANGED <<nextId, isSyncing, online, signedIn, failures>>
    /\ UNCHANGED recorderVars
    /\ UNCHANGED driveVars
    /\ UNCHANGED cleared
    /\ UNCHANGED auxVars
    /\ lastCall' = "none"

\* the upload fails with a status other than 401: the error reaches the catch block
SyncUploadFail(t) ==
    /\ pass[t].pc = "inflight"
    /\ Catch(t)
    /\ UNCHANGED <<nextId, isSyncing, online, signedIn>>
    /\ UNCHANGED recorderVars
    /\ UNCHANGED driveVars
    /\ UNCHANGED cleared
    /\ UNCHANGED auxVars
    /\ lastCall' = "none"

\* the upload fails with status 401: uploadRecording awaits signIn()
SyncUpload401(t) ==
    /\ pass[t].pc = "inflight"
    /\ pass' = [ pass EXCEPT ![t].pc = "reauth" ]
    /\ UNCHANGED <<recordings, nextId, isSyncing, online, signedIn, failures>>
    /\ UNCHANGED recorderVars
    /\ UNCHANGED driveVars
    /\ UNCHANGED cleared
    /\ UNCHANGED auxVars
    /\ lastCall' = "none"

\* signIn() resolves: handleTokenResponse, then uploadRecording calls itself
SyncReauthOk(t) ==
    /\ pass[t].pc = "reauth"
    /\ signedIn' = TRUE
    /\ pass' = [ pass EXCEPT ![t].pc = "inflight", ![t].retried = TRUE ]
    /\ UNCHANGED <<recordings, nextId, isSyncing, online, failures>>
    /\ UNCHANGED recorderVars
    /\ UNCHANGED driveVars
    /\ UNCHANGED cleared
    /\ UNCHANGED auxVars
    /\ lastCall' = "none"

\* signIn() rejects: the error reaches the catch block
SyncReauthFail(t) ==
    /\ pass[t].pc = "reauth"
    /\ Catch(t)
    /\ UNCHANGED <<nextId, isSyncing, online, signedIn>>
    /\ UNCHANGED recorderVars
    /\ UNCHANGED driveVars
    /\ UNCHANGED cleared
    /\ UNCHANGED auxVars
    /\ lastCall' = "none"

\* the catch block, second statement: incrementRetryCount(id)
SyncIncRetry(t) ==
    /\ pass[t].pc = "incRetry"
    /\ recordings' = incrementRetryCount(recordings, CurId(t))
    /\ failures' = [ failures EXCEPT ![CurId(t)] = @ + 1 ]
    /\ pass' = [ pass EXCEPT ![t].pc = "item", ![t].idx = @ + 1, ![t].retried = FALSE ]
    /\ UNCHANGED <<nextId, isSyncing, online, signedIn>>
    /\ UNCHANGED recorderVars
    /\ UNCHANGED driveVars
    /\ UNCHANGED cleared
    /\ UNCHANGED auxVars
    /\ lastCall' = "none"

\* updateRecordingsList after the loop resolves; finally
SyncFinish(t) ==
    /\ pass[t].pc = "finishing"
    /\ Finally(t)
    /\ UNCHANGED <<recordings, nextId, online, signedIn, failures>>
    /\ UNCHANGED recorderVars
    /\ UNCHANGED driveVars
    /\ UNCHANGED cleared
    /\ UNCHANGED auxVars
    /\ lastCall' = "none"

\* the page is closed and reopened: memory is lost, the stores are kept, and
\* startApp's startSyncInterval makes the initial call of syncRecordings
Restart ==
    /\ IF online /\ signedIn
       THEN /\ isSyncing' = TRUE
            /\ pass' = [ t \in Slots |-> IF t = 1 THEN [ IdlePass EXCEPT !.pc = "fetch" ]
                                         ELSE IdlePass ]
       ELSE /\ isSyncing' = FALSE
            /\ pass' = [ t \in Slots |-> IdlePass ]
    /\ lastCall' = "restarted"
    /\ UNCHANGED <<recordings, nextId, online, signedIn, failures>>
    /\ UNCHANGED recorderVars
    /\ UNCHANGED driveVars
    /\ UNCHANGED cleared
    /\ UNCHANGED auxVars

\* ---------------------------------------------- StorageService: chunks store

\* saveChunk(sessionId, sequence, blob): store.add
saveChunk(store, sid, sequence, blob) ==
    Append(store, [ sessionId |-> sid, sequence |-> sequence, blob |-> blob ])

\* the records index.getAll(sessionId) of the 'sessionId' index returns
RECURSIVE OfSession(_, _)
OfSession(store, sid) ==
    IF store = <<>> THEN <<>>
    ELSE (IF Head(store).sessionId = sid THEN <<Head(store)>> ELSE <<>>)
         \o OfSession(Tail(store), sid)

\* Array.prototype.sort((a, b) => a.sequence - b.sequence): a stable insertion sort
RECURSIVE InsertBySequence(_, _)
InsertBySequence(sorted, c) ==
    IF sorted = <<>> THEN <<c>>
    ELSE IF Head(sorted).sequence <= c.sequence
         THEN <<Head(sorted)>> \o InsertBySequence(Tail(sorted), c)
         ELSE <<c>> \o sorted

RECURSIVE SortBySequence(_)
SortBySequence(cs) ==
    IF cs = <<>> THEN <<>>
    ELSE InsertBySequence(SortBySequence(SubSeq(cs, 1, Len(cs) - 1)), cs[Len(cs)])

\* getSessionChunks(sessionId)
getSessionChunks(store, sid) == SortBySequence(OfSession(store, sid))

\* clearSessionChunks(sessionId): the cursor deletes every chunk of the session
RECURSIVE clearSessionChunks(_, _)
clearSessionChunks(store, sid) ==
    IF store = <<>> THEN <<>>
    ELSE (IF Head(store).sessionId = sid THEN <<>> ELSE <<Head(store)>>)
         \o clearSessionChunks(Tail(store), sid)

\* new Blob(blobs): the parts one after the other
RECURSIVE ConcatBlobs(_)
ConcatBlobs(cs) ==
    IF cs = <<>> THEN <<>> ELSE Head(cs).blob \o ConcatBlobs(Tail(cs))

\* recoverFromChunks that returns the first chunk only
recoverFromChunks_first(store, sid) ==
    LET cs == getSessionChunks(store, sid)
    IN  IF Len(cs) = 0 THEN <<>> ELSE cs[1].blob

\* recoverFromChunks(sessionId); a session without chunks gives null, which the
\* caller's test (blob && blob.size > 0) treats as an empty blob: <<>>
recoverFromChunks(store, sid) ==
    LET cs == getSessionChunks(store, sid)
    IN  IF Len(cs) = 0 THEN <<>> ELSE ConcatBlobs(cs)

\* getOrphanedSessions: [...new Set(chunks.map(c => c.sessionId))]
RECURSIVE Distinct(_, _)
Distinct(store, seen) ==
    IF store = <<>> THEN <<>>
    ELSE IF Head(store).sessionId \in seen THEN Distinct(Tail(store), seen)
         ELSE <<Head(store).sessionId>>
              \o Distinct(Tail(store), seen \cup {Head(store).sessionId})

getOrphanedSessions(store) == Distinct(store, {})

\* ------------------------------------------------ RecorderService (part_000)

\* the values of mediaRecorder.onstop: null, handleStop, the handler of the
\* promise of an invocation of stop()
NoHandler == [ kind |-> "none", k |-> 0 ]
LogHandler == [ kind |-> "log", k |-> 0 ]
PromiseHandler(k) == [ kind |-> "promise", k |-> k ]

NoRecorder == [ state |-> "null", onstop |-> NoHandler, stopPending |-> FALSE, sid |-> NULL ]
IdleStop == [ pc |-> "idle", sid |-> NULL, blob |-> <<>>, duration |-> 0 ]
StopSlots == 1..MaxStops
FreeStops == { k \in StopSlots : hstop[k].pc = "idle" }
FreeStop == CHOOSE k \in FreeStops : \A u \in FreeStops : k <= u

\* getState()
getState == IF mediaRecorder.state = "null" THEN "inactive" ELSE mediaRecorder.state

QuietSync ==
    /\ lastCall' = "none"
    /\ UNCHANGED <<isSyncing, pass, online, signedIn, failures>>

\* the bound of the chunk store leaves room for the flush of this step
RoomToFlush ==
    \/ Len(chunks) = 0
    \/ sessionId = NULL
    \/ Len(chunkStore) < MaxChunks /\ Len(conts) < MaxConts

\* saveCurrentChunk, up to its await: the chunk goes to the store under the
\* current counter, which the continuation advances
saveCurrentChunk ==
    IF Len(chunks) = 0 \/ sessionId = NULL
    THEN UNCHANGED <<chunkStore, conts>>
    ELSE /\ chunkStore' = saveChunk(chunkStore, sessionId, chunkSequence, chunks)
         /\ conts' = Append(conts, [ kind |-> "flush", k |-> 0, blob |-> <<>>, sid |-> NULL ])

\* stopChunkInterval
stopChunkInterval ==
    IF chunkInterval
    THEN timers' = timers - 1 /\ chunkInterval' = FALSE
    ELSE UNCHANGED <<timers, chunkInterval>>

\* getElapsedTime() that measures the pause going on from the start of the session
getElapsedTime_fromStart ==
    IF startTime = NULL THEN 0
    ELSE LET elapsed == now - startTime - pausedDuration
         IN  (IF pauseStartTime # NULL THEN elapsed - (now - startTime) ELSE elapsed)
             \div 1000

\* getElapsedTime() of part_000: whole seconds since startTime, less the pauses
\* that ended and the pause that pauseStartTime says is going on
getElapsedTime ==
    IF startTime = NULL THEN 0
    ELSE LET elapsed == now - startTime - pausedDuration
         IN  (IF pauseStartTime # NULL THEN elapsed - (now - pauseStartTime) ELSE elapsed)
             \div 1000

\* start()
Start ==
    /\ appPc.pc = "ready"
    /\ nextSession <= MaxSessions
    /\ IF mediaRecorder.state = "recording"
       THEN UNCHANGED <<mediaRecorder, chunks, sessionId, chunkSequence, chunkInterval,
                        timers, oldStops, nextSession, startTime, pausedDuration,
                        pauseStartTime, running, recTime>>
       ELSE /\ sessionId' = nextSession
            /\ nextSession' = nextSession + 1
            /\ chunks' = <<>>
            /\ chunkSequence' = 0
            /\ pausedDuration' = 0
            /\ pauseStartTime' = NULL
            /\ oldStops' = IF mediaRecorder.stopPending
                           THEN Append(oldStops, [ onstop |-> mediaRecorder.onstop,
                                                   sid |-> mediaRecorder.sid ])
                           ELSE oldStops
            /\ mediaRecorder' = [ state |-> "recording", onstop |-> LogHandler,
                                  stopPending |-> FALSE, sid |-> nextSession ]
            /\ startTime' = now
            /\ timers' = timers + 1
            /\ chunkInterval' = TRUE
            /\ running' = TRUE
            /\ recTime' = 0
    /\ UNCHANGED now
    /\ QuietSync
    /\ UNCHANGED <<catalogVars, chunkStore, conts, appPc, hstop, nextFrag, captured>>
    /\ UNCHANGED cancelled
    /\ UNCHANGED driveVars
    /\ UNCHANGED cleared
    /\ UNCHANGED auxVars

\* handleDataAvailable: the device delivers a fragment with data
Capture ==
    /\ appPc.pc = "ready"
    /\ mediaRecorder.state = "recording"
    /\ nextFrag <= MaxFrags
    /\ chunks' = Append(chunks, nextFrag)
    /\ captured' = [ captured EXCEPT ![mediaRecorder.sid] = Append(@, nextFrag) ]
    /\ nextFrag' = nextFrag + 1
    /\ QuietSync
    /\ UNCHANGED <<catalogVars, chunkStore, mediaRecorder, sessionId, chunkSequence,
                   chunkInterval, timers, conts, oldStops, appPc, hstop, nextSession>>
    /\ UNCHANGED timeVars
    /\ UNCHANGED cancelled
    /\ UNCHANGED driveVars
    /\ UNCHANGED cleared
    /\ UNCHANGED auxVars

\* the setInterval callback of startChunkInterval when StorageService.saveChunk
\* rejects: saveCurrentChunk logs the error in its catch block
TimerFlushFail ==
    /\ appPc.pc = "ready"
    /\ timers > 0
    /\ Len(chunks) > 0
    /\ sessionId # NULL
    /\ failedFlushes < MaxFlushFails
    /\ failedFlushes' = failedFlushes + 1
    /\ UNCHANGED storeCall
    /\ QuietSync
    /\ UNCHANGED <<catalogVars, chunkStore, conts, mediaRecorder, chunks, sessionId,
                   chunkSequence, chunkInterval, timers, oldStops, appPc, hstop,
                   nextFrag, nextSession, captured>>
    /\ UNCHANGED timeVars
    /\ UNCHANGED cancelled
    /\ UNCHANGED driveVars
    /\ UNCHANGED cleared

\* the setInterval callback of startChunkInterval
TimerFlush ==
    /\ appPc.pc = "ready"
    /\ timers > 0
    /\ RoomToFlush
    /\ saveCurrentChunk
    /\ QuietSync
    /\ UNCHANGED <<catalogVars, mediaRecorder, chunks, sessionId, chunkSequence,
                   chunkInterval, timers, oldStops, appPc, hstop, nextFrag, nextSession,
                   captured>>
    /\ UNCHANGED timeVars
    /\ UNCHANGED cancelled
    /\ UNCHANGED driveVars
    /\ UNCHANGED cleared
    /\ UNCHANGED auxVars

\* a pause() that tests only that a MediaRecorder exists
Pause_noGuard ==
    /\ appPc.pc = "ready"
    /\ RoomToFlush
    /\ IF mediaRecorder.state \in {"recording", "paused"}
       THEN /\ mediaRecorder' = [ mediaRecorder EXCEPT !.state = "paused" ]
            /\ pauseStartTime' = now
            /\ running' = FALSE
            /\ saveCurrentChunk
       ELSE UNCHANGED <<mediaRecorder, chunkStore, conts, pauseStartTime, running>>
    /\ UNCHANGED <<now, startTime, pausedDuration, recTime>>
    /\ QuietSync
    /\ UNCHANGED <<catalogVars, chunks, sessionId, chunkSequence, chunkInterval,
                   timers, oldStops, appPc, hstop, nextFrag, nextSession, captured>>
    /\ UNCHANGED cancelled
    /\ UNCHANGED driveVars
    /\ UNCHANGED cleared
    /\ UNCHANGED auxVars

\* pause()
Pause ==
    /\ appPc.pc = "ready"
    /\ RoomToFlush
    /\ IF mediaRecorder.state = "recording"
       THEN /\ mediaRecorder' = [ mediaRecorder EXCEPT !.state = "paused" ]
            /\ pauseStartTime' = now
            /\ running' = FALSE
            /\ saveCurrentChunk
       ELSE UNCHANGED <<mediaRecorder, chunkStore, conts, pauseStartTime, running>>
    /\ UNCHANGED <<now, startTime, pausedDuration, recTime>>
    /\ QuietSync
    /\ UNCHANGED <<catalogVars, chunks, sessionId, chunkSequence, chunkInterval,
                   timers, oldStops, appPc, hstop, nextFrag, nextSession, captured>>
    /\ UNCHANGED cancelled
    /\ UNCHANGED driveVars
    /\ UNCHANGED cleared
    /\ UNCHANGED auxVars

\* resume()
Resume ==
    /\ appPc.pc = "ready"
    /\ IF mediaRecorder.state = "paused"
       THEN /\ pausedDuration' = IF pauseStartTime # NULL
                                 THEN pausedDuration + (now - pauseStartTime)
                                 ELSE pausedDuration
            /\ pauseStartTime' = NULL
            /\ mediaRecorder' = [ mediaRecorder EXCEPT !.state = "recording" ]
            /\ running' = TRUE
       ELSE UNCHANGED <<mediaRecorder, pausedDuration, pauseStartTime, running>>
    /\ UNCHANGED <<now, startTime, recTime>>
    /\ QuietSync
    /\ UNCHANGED <<catalogVars, chunkStore, chunks, sessionId, chunkSequence,
                   chunkInterval, timers, conts, oldStops, appPc, hstop, nextFrag,
                   nextSession, captured>>
    /\ UNCHANGED cancelled
    /\ UNCHANGED driveVars
    /\ UNCHANGED cleared
    /\ UNCHANGED auxVars

RecorderIdle ==
    /\ chunkStore = <<>>
    /\ mediaRecorder = NoRecorder
    /\ chunks = <<>>
    /\ sessionId = NULL
    /\ chunkSequence = 0
    /\ chunkInterval = FALSE
    /\ timers = 0
    /\ conts = <<>>
    /\ oldStops = <<>>
    /\ hstop = [ k \in StopSlots |-> IdleStop ]
    /\ nextFrag = 1
    /\ nextSession = 1
    /\ captured = [ x \in 1..MaxSessions |-> <<>> ]
    /\ now = T0
    /\ startTime = NULL
    /\ pausedDuration = 0
    /\ pauseStartTime = NULL
    /\ running = FALSE
    /\ recTime = 0
    /\ cancelled = {}
    /\ folderCache = << >>
    /\ driveFolders = {}
    /\ ensure = [ pc |-> "idle", path |-> <<>>, parts |-> <<>>, idx |-> 0, parentId |-> NULL ]
    /\ returned = << >>
    /\ ensureCalls = 0
    /\ cleared = 0
    /\ failedFlushes = 0
    /\ storeCall = NoCall

\* handleStop, up to its first await: RecorderService.stop() rejects without a
\* MediaRecorder, else it installs the handler of its promise as onstop and
\* stops the MediaRecorder unless it is inactive already
HandleStopUpTo(n) ==
    /\ appPc.pc = "ready"
    /\ FreeStops # {}
    /\ Cardinality(StopSlots \ FreeStops) < n
    /\ IF mediaRecorder.state = "null"
       THEN UNCHANGED <<mediaRecorder, hstop, timers, chunkInterval>>
       ELSE /\ stopChunkInterval
            /\ mediaRecorder' = [ mediaRecorder EXCEPT
                   !.state = "inactive",
                   !.onstop = PromiseHandler(FreeStop),
                   !.stopPending = @ \/ mediaRecorder.state # "inactive" ]
            /\ hstop' = [ hstop EXCEPT ![FreeStop] =
                            [ pc |-> "wait", sid |-> sessionId, blob |-> <<>>,
                              duration |-> 0 ] ]
    /\ QuietSync
    /\ UNCHANGED <<catalogVars, chunkStore, chunks, sessionId, chunkSequence,
                   conts, oldStops, appPc, nextFrag, nextSession, captured>>
    /\ UNCHANGED timeVars
    /\ UNCHANGED cancelled
    /\ UNCHANGED driveVars
    /\ UNCHANGED cleared
    /\ UNCHANGED auxVars

\* the onstop handler that stop() installs, up to its await: the blob is made of
\* the buffer, the duration is read, and clearSessionChunks(sessionId) is
\* requested; with sessionId null the request throws and the promise rejects
onstopHandler(k, buffer, duration) ==
    IF sessionId = NULL
    THEN /\ hstop' = [ hstop EXCEPT ![k] = IdleStop ]
         /\ UNCHANGED <<chunkStore, conts>>
    ELSE /\ hstop' = [ hstop EXCEPT ![k].pc = "clearing", ![k].blob = buffer,
                                    ![k].duration = duration ]
         /\ chunkStore' = clearSessionChunks(chunkStore, sessionId)
         /\ conts' = Append(conts, [ kind |-> "stopClear", k |-> k, blob |-> buffer,
                                   sid |-> NULL ])

\* the MediaRecorder that was stopped fires dataavailable (with the rest of the
\* data, if any) and then stop; duration: what getElapsedTime() returns to the
\* handler of stop()
\* the Stop button, or the record toggle while recording, with no call of
\* handleStop still waiting for stop()
HandleStop == HandleStopUpTo(1)

\* the same handlers, also while an earlier call of handleStop is waiting
HandleStopOverlap == HandleStopUpTo(MaxStops)

StopEventWith(duration) ==
    /\ mediaRecorder.stopPending
    /\ Len(conts) < MaxConts
    /\ \E fin \in BOOLEAN :
         /\ fin => nextFrag <= MaxFrags /\ mediaRecorder.sid # NULL
         /\ LET buffer == IF fin THEN Append(chunks, nextFrag) ELSE chunks
            IN  /\ chunks' = buffer
                /\ nextFrag' = IF fin THEN nextFrag + 1 ELSE nextFrag
                /\ captured' = IF fin
                               THEN [ captured EXCEPT ![mediaRecorder.sid] = Append(@, nextFrag) ]
                               ELSE captured
                /\ IF mediaRecorder.onstop.kind = "promise"
                   THEN onstopHandler(mediaRecorder.onstop.k, buffer, duration)
                   ELSE UNCHANGED <<hstop, chunkStore, conts>>
    /\ mediaRecorder' = [ mediaRecorder EXCEPT !.stopPending = FALSE ]
    /\ running' = FALSE
    /\ QuietSync
    /\ UNCHANGED <<catalogVars, sessionId, chunkSequence, chunkInterval, timers,
                   oldStops, appPc, nextSession, now, startTime, pausedDuration,
                   pauseStartTime, recTime>>
    /\ UNCHANGED cancelled
    /\ UNCHANGED driveVars
    /\ UNCHANGED cleared
    /\ UNCHANGED auxVars

StopEvent == StopEventWith(getElapsedTime)

\* the same events of a MediaRecorder that start() has replaced meanwhile
OldStopEventWith(duration) ==
    /\ oldStops # <<>>
    /\ Len(conts) < MaxConts
    /\ \E fin \in BOOLEAN :
         /\ fin => nextFrag <= MaxFrags
         /\ LET buffer == IF fin THEN Append(chunks, nextFrag) ELSE chunks
                old == Head(oldStops)
            IN  /\ chunks' = buffer
                /\ nextFrag' = IF fin THEN nextFrag + 1 ELSE nextFrag
                /\ captured' = IF fin
                               THEN [ captured EXCEPT ![old.sid] = Append(@, nextFrag) ]
                               ELSE captured
                /\ IF old.onstop.kind = "promise"
                   THEN onstopHandler(old.onstop.k, buffer, duration)
                   ELSE UNCHANGED <<hstop, chunkStore, conts>>
    /\ oldStops' = Tail(oldStops)
    /\ QuietSync
    /\ UNCHANGED <<catalogVars, mediaRecorder, sessionId, chunkSequence,
                   chunkInterval, timers, appPc, nextSession>>
    /\ UNCHANGED timeVars
    /\ UNCHANGED cancelled
    /\ UNCHANGED driveVars
    /\ UNCHANGED cleared
    /\ UNCHANGED auxVars

OldStopEvent == OldStopEventWith(getElapsedTime)

\* saveCurrentChunk after its await
ContFlush ==
    /\ chunkSequence' = chunkSequence + 1
    /\ UNCHANGED <<chunks, sessionId, hstop, catalogVars>>

\* the onstop handler after its await: resolve, then the state is reset; and
\* handleStop after RecorderService.stop(): saveRecording of a non-empty blob
ContStopClear(k, blob) ==
    /\ chunks' = <<>>
    /\ sessionId' = NULL
    /\ UNCHANGED chunkSequence
    /\ IF Len(blob) > 0
       THEN /\ nextId <= MaxRec
            /\ recordings' = saveRecording(recordings, nextId, blob, FALSE, NULL)
            /\ nextId' = nextId + 1
            /\ hstop' = [ hstop EXCEPT ![k].pc = "saved" ]
       ELSE /\ hstop' = [ hstop EXCEPT ![k] = IdleStop ]
            /\ UNCHANGED catalogVars

\* cancel() after its await
ContCancelClear ==
    /\ chunks' = <<>>
    /\ sessionId' = NULL
    /\ UNCHANGED <<chunkSequence, hstop, catalogVars>>

\* the oldest chunk-store request completes and its continuation runs
ChunkRequestDone ==
    /\ conts # <<>>
    /\ LET c == Head(conts)
       IN  CASE c.kind = "flush" -> ContFlush
             [] c.kind = "stopClear" -> ContStopClear(c.k, c.blob)
             [] c.kind = "cancelClear" -> ContCancelClear
    /\ cancelled' = IF Head(conts).kind = "cancelClear" /\ Head(conts).sid # NULL
                    THEN cancelled \cup {Head(conts).sid} ELSE cancelled
    /\ UNCHANGED driveVars
    /\ UNCHANGED cleared
    /\ UNCHANGED auxVars
    /\ conts' = Tail(conts)
    /\ QuietSync
    /\ UNCHANGED <<chunkStore, mediaRecorder, chunkInterval, timers, oldStops,
                   appPc, nextFrag, nextSession, captured>>
    /\ UNCHANGED timeVars

\* handleStop after saveRecording and updateRecordingsList: syncRecordings()
HandleStopSaved ==
    /\ \E k \in StopSlots :
         /\ hstop[k].pc = "saved"
         /\ hstop' = [ hstop EXCEPT ![k] = IdleStop ]
    /\ FreeSlots # {}
    /\ syncRecordings(online)
    /\ UNCHANGED <<catalogVars, online, signedIn, failures, chunkStore,
                   mediaRecorder, chunks, sessionId, chunkSequence, chunkInterval, timers,
                   conts, oldStops, appPc, nextFrag, nextSession, captured>>
    /\ UNCHANGED timeVars
    /\ UNCHANGED cancelled
    /\ UNCHANGED driveVars
    /\ UNCHANGED cleared
    /\ UNCHANGED auxVars

\* handleCancel (confirmed): cancel()
Cancel ==
    /\ appPc.pc = "ready"
    /\ sessionId # NULL => Len(conts) < MaxConts
    /\ stopChunkInterval
    /\ mediaRecorder' = IF mediaRecorder.state \in {"recording", "paused"}
                        THEN [ mediaRecorder EXCEPT !.state = "inactive", !.onstop = NoHandler,
                                                    !.stopPending = TRUE ]
                        ELSE mediaRecorder
    /\ IF sessionId # NULL
       THEN /\ chunkStore' = clearSessionChunks(chunkStore, sessionId)
            /\ conts' = Append(conts,
                   [ kind |-> "cancelClear", k |-> 0, blob |-> <<>>,
                     sid |-> IF mediaRecorder.state \in {"recording", "paused"}
                             THEN sessionId ELSE NULL ])
            /\ UNCHANGED <<chunks, sessionId>>
       ELSE /\ chunks' = <<>>
            /\ UNCHANGED <<chunkStore, conts, sessionId>>
    /\ QuietSync
    /\ UNCHANGED <<catalogVars, chunkSequence, oldStops, appPc, hstop, nextFrag,
                   nextSession, captured>>
    /\ UNCHANGED timeVars
    /\ UNCHANGED cancelled
    /\ UNCHANGED driveVars
    /\ UNCHANGED cleared
    /\ UNCHANGED auxVars

\* the page is closed (or crashes) and is opened again: the stores are kept,
\* everything else starts over with App.init
Crash ==
    /\ appPc.crashes < MaxCrashes
    /\ mediaRecorder' = NoRecorder
    /\ chunks' = <<>>
    /\ sessionId' = NULL
    /\ chunkSequence' = 0
    /\ chunkInterval' = FALSE
    /\ timers' = 0
    /\ conts' = <<>>
    /\ oldStops' = <<>>
    /\ hstop' = [ k \in StopSlots |-> IdleStop ]
    /\ appPc' = [ pc |-> "boot", list |-> <<>>, idx |-> 0, crashes |-> appPc.crashes + 1 ]
    /\ isSyncing' = FALSE
    /\ pass' = [ t \in Slots |-> IdlePass ]
    /\ lastCall' = "none"
    /\ startTime' = NULL
    /\ pausedDuration' = 0
    /\ pauseStartTime' = NULL
    /\ running' = FALSE
    /\ recTime' = 0
    /\ UNCHANGED <<catalogVars, online, signedIn, failures, chunkStore, nextFrag,
                   nextSession, captured, now>>
    /\ UNCHANGED cancelled
    /\ UNCHANGED driveVars
    /\ UNCHANGED cleared
    /\ UNCHANGED auxVars

\* App.init reaches startApp: startSyncInterval makes the first call of syncRecordings
StartApp ==
    /\ appPc' = [ appPc EXCEPT !.pc = "ready", !.list = <<>>, !.idx = 0 ]
    /\ syncRecordings(online)

\* an App.init that goes on to startApp without the recovery
Boot_noRecovery ==
    /\ appPc.pc = "boot"
    /\ StartApp
    /\ UNCHANGED <<catalogVars, online, signedIn, failures, chunkStore,
                   mediaRecorder, chunks, sessionId, chunkSequence, chunkInterval, timers,
                   conts, oldStops, hstop, nextFrag, nextSession, captured>>
    /\ UNCHANGED timeVars
    /\ UNCHANGED cancelled
    /\ UNCHANGED driveVars
    /\ UNCHANGED cleared
    /\ UNCHANGED auxVars

\* checkForRecovery: getOrphanedSessions resolves
Boot ==
    /\ appPc.pc = "boot"
    /\ LET list == getOrphanedSessions(chunkStore)
       IN  IF Len(list) = 0
           THEN StartApp
           ELSE /\ appPc' = [ appPc EXCEPT !.pc = "recover", !.list = list, !.idx = 1 ]
                /\ QuietSync
    /\ UNCHANGED <<catalogVars, online, signedIn, failures, chunkStore,
                   mediaRecorder, chunks, sessionId, chunkSequence, chunkInterval, timers,
                   conts, oldStops, hstop, nextFrag, nextSession, captured>>
    /\ UNCHANGED timeVars
    /\ UNCHANGED cancelled
    /\ UNCHANGED driveVars
    /\ UNCHANGED cleared
    /\ UNCHANGED auxVars

\* checkForRecovery, loop body up to clearSessionChunks: recoverFromChunks and,
\* for a non-empty blob, saveRecording(blob, {recovered, originalSessionId})
Recover ==
    /\ appPc.pc = "recover"
    /\ LET sid == appPc.list[appPc.idx]
           blob == recoverFromChunks(chunkStore, sid)
       IN  IF Len(blob) > 0
           THEN /\ recordings' = saveRecording(recordings, nextId, blob, TRUE, sid)
                /\ nextId' = nextId + 1
           ELSE UNCHANGED catalogVars
    /\ appPc' = [ appPc EXCEPT !.pc = "clear" ]
    /\ QuietSync
    /\ UNCHANGED <<chunkStore, mediaRecorder, chunks, sessionId, chunkSequence,
                   chunkInterval, timers, conts, oldStops, hstop, nextFrag, nextSession,
                   captured>>
    /\ UNCHANGED timeVars
    /\ UNCHANGED cancelled
    /\ UNCHANGED driveVars
    /\ UNCHANGED cleared
    /\ UNCHANGED auxVars

\* checkForRecovery, end of the loop body: clearSessionChunks(sessionId); after
\* the last session App.init goes on to startApp
RecoverClear ==
    /\ appPc.pc = "clear"
    /\ chunkStore' = clearSessionChunks(chunkStore, appPc.list[appPc.idx])
    /\ IF appPc.idx = Len(appPc.list)
       THEN StartApp
       ELSE /\ appPc' = [ appPc EXCEPT !.pc = "recover", !.idx = @ + 1 ]
            /\ QuietSync
    /\ UNCHANGED <<catalogVars, online, signedIn, failures, mediaRecorder, chunks,
                   sessionId, chunkSequence, chunkInterval, timers, conts, oldStops, hstop,
                   nextFrag, nextSession, captured>>
    /\ UNCHANGED timeVars
    /\ UNCHANGED cancelled
    /\ UNCHANGED driveVars
    /\ UNCHANGED cleared
    /\ UNCHANGED auxVars

Init ==
    /\ recordings = << >>
    /\ nextId = 1
    /\ isSyncing = FALSE
    /\ pass = [ t \in Slots |-> IdlePass ]
    /\ online = TRUE
    /\ signedIn = FALSE
    /\ failures = [ i \in 1..MaxRec |-> 0 ]
    /\ lastCall = "none"
    /\ RecorderIdle
    /\ appPc = [ pc |-> "boot", list |-> <<>>, idx |-> 0, crashes |-> 0 ]

Next ==
    \/ Boot
    \/ Recover
    \/ RecoverClear
    \/ Start
    \/ Capture
    \/ TimerFlush
    \/ Pause
    \/ Resume
    \/ HandleStop
    \/ StopEvent
    \/ OldStopEvent
    \/ ChunkRequestDone
    \/ HandleStopSaved
    \/ Cancel
    \/ Crash

Spec == Init /\ [][Next]_vars

InitSync ==
    /\ recordings = << >>
    /\ nextId = 1
    /\ isSyncing = FALSE
    /\ pass = [ t \in Slots |-> IdlePass ]
    /\ online = TRUE
    /\ signedIn = FALSE
    /\ failures = [ i \in 1..MaxRec |-> 0 ]
    /\ lastCall = "none"
    /\ RecorderIdle
    /\ appPc = [ pc |-> "ready", list |-> <<>>, idx |-> 0, crashes |-> 0 ]

SyncStep ==
    \E t \in Slots :
        \/ SyncFetch(t)
        \/ SyncItem(t)
        \/ SyncUploadCall(t)
        \/ SyncUploadOk(t)
        \/ SyncUploadFail(t)
        \/ SyncUpload401(t)
        \/ SyncReauthOk(t)
        \/ SyncReauthFail(t)
        \/ SyncIncRetry(t)
        \/ SyncFinish(t)

NextSync ==
    \/ TimerTick
    \/ Reconnect
    \/ Disconnect
    \/ SignIn
    \/ SignOut
    \/ ClearSynced
    \/ NewRecording
    \/ Restart
    \/ SyncStep

SpecSync == InitSync /\ [][NextSync]_vars

\* ------------------------------------------- App (drive.js): one page, running
\* The sync queue of a page that is not reloaded, with every promise a pass
\* awaits settling: the IndexedDB requests, the upload request (resolved,
\* rejected, or rejected with status 401) and the signIn() of uploadRecording.

\* the upload request settles
UploadSettles(t) == SyncUploadOk(t) \/ SyncUploadFail(t) \/ SyncUpload401(t)

\* the promise of signIn() settles
SignInSettles(t) == SyncReauthOk(t) \/ SyncReauthFail(t)

NextSettling ==
    \/ TimerTick
    \/ Reconnect
    \/ Disconnect
    \/ SignIn
    \/ SignOut
    \/ ClearSynced
    \/ NewRecording
    \/ \E t \in Slots : SyncFetch(t)
    \/ \E t \in Slots : SyncItem(t)
    \/ \E t \in Slots : SyncUploadCall(t)
    \/ \E t \in Slots : UploadSettles(t)
    \/ \E t \in Slots : SignInSettles(t)
    \/ \E t \in Slots : SyncIncRetry(t)
    \/ \E t \in Slots : SyncFinish(t)

FairSettling ==
    \A t \in Slots :
        /\ WF_vars(SyncFetch(t))
        /\ WF_vars(SyncItem(t))
        /\ WF_vars(SyncUploadCall(t))
        /\ WF_vars(UploadSettles(t))
        /\ WF_vars(SignInSettles(t))
        /\ WF_vars(SyncIncRetry(t))
        /\ WF_vars(SyncFinish(t))

SpecSettling == InitSync /\ [][NextSettling]_vars /\ FairSettling

\* --------------------------------------------- App (drive.js): the good weather
\* The sync queue while the network stays up, the token stays valid and every
\* upload resolves: no 'offline' event, no sign-out, no rejected upload, no
\* reload of the page.

\* the (status, retryCount) pairs an unsynced record of the catalog can hold:
\* pending as saved, uploading or failed as a pass left it
UnsyncedRecords ==
    { [ NewRecord(<<1>>, FALSE, NULL) EXCEPT !.status = s, !.retryCount = n ] :
        s \in {"uploading", "failed"}, n \in {0, MAX_RETRY_COUNT - 1, MAX_RETRY_COUNT} }
    \cup { NewRecord(<<1>>, FALSE, NULL) }

\* startApp with Drive connected: the catalog holds what earlier runs left
InitUp ==
    /\ \E n \in 0..(MaxRec - 1) :
         /\ nextId = n + 1
         /\ recordings \in [ 1..n -> UnsyncedRecords ]
    /\ failures = [ i \in 1..MaxRec |->
                      IF i \in DOMAIN recordings THEN recordings[i].retryCount ELSE 0 ]
    /\ isSyncing = FALSE
    /\ pass = [ t \in Slots |-> IdlePass ]
    /\ online = TRUE
    /\ signedIn = TRUE
    /\ lastCall = "none"
    /\ RecorderIdle
    /\ appPc = [ pc |-> "ready", list |-> <<>>, idx |-> 0, crashes |-> 0 ]

NextUp ==
    \/ TimerTick
    \/ NewRecording
    \/ ClearSynced
    \/ \E t \in Slots : SyncFetch(t)
    \/ \E t \in Slots : SyncItem(t)
    \/ \E t \in Slots : SyncUploadCall(t)
    \/ \E t \in Slots : SyncUploadOk(t)
    \/ \E t \in Slots : SyncFinish(t)

\* setInterval keeps firing its callback, and every awaited promise of a pass
\* (the IndexedDB requests, the upload) resolves
FairUp ==
    /\ WF_vars(TimerTick)
    /\ \A t \in Slots :
         /\ WF_vars(SyncFetch(t))
         /\ WF_vars(SyncItem(t))
         /\ WF_vars(SyncUploadCall(t))
         /\ WF_vars(SyncUploadOk(t))
         /\ WF_vars(SyncFinish(t))

SpecUp == InitUp /\ [][NextUp]_vars /\ FairUp

\* ------------------------------------------- RecorderService (js/recorder.js)

\* what chunkInfo is to the chunks store: an object, which is no valid key of
\* the 'sessionId' index
NotAKey == -1

\* StorageService.saveChunk(chunkInfo): the one argument binds to the parameter
\* sessionId; sequence and blob are undefined. The record is added, and no
\* query by session id reaches it
saveChunkInfo(store) == saveChunk(store, NotAKey, NotAKey, <<>>)

RoomToFlushInfo ==
    \/ Len(chunks) = 0
    \/ Len(chunkStore) < MaxChunks /\ Len(conts) < MaxConts

\* saveCurrentChunk of js/recorder.js, up to its first await: chunkSequence++
\* while chunkInfo is built; the suspended call holds chunkInfo.blob, the
\* fragments the buffer had when the Blob was made
saveCurrentChunkInfo ==
    IF Len(chunks) = 0
    THEN UNCHANGED <<chunkStore, conts, chunkSequence>>
    ELSE /\ chunkSequence' = chunkSequence + 1
         /\ chunkStore' = saveChunkInfo(chunkStore)
         /\ conts' = Append(conts, [ kind |-> "flush", k |-> 0, blob |-> chunks, sid |-> NULL ])

\* getElapsedTime() of js/recorder.js: the pause going on counts only while the
\* MediaRecorder is in state paused
getElapsedTimeInfo ==
    IF startTime = NULL THEN 0
    ELSE LET elapsed == now - startTime - pausedDuration
         IN  (IF mediaRecorder.state = "paused" /\ pauseStartTime # NULL
              THEN elapsed - (now - pauseStartTime) ELSE elapsed) \div 1000

\* start() of js/recorder.js. The file binds no handleStop, so the assignment
\* of mediaRecorder.onstop looks the name up in the global scope, which scripts
\* outside this source fill: bound, start() goes on (startChunkInterval clears
\* the timer it holds); unbound, it throws there, with the session state reset
\* and a new MediaRecorder that never started
StartInfo ==
    /\ nextSession <= MaxSessions
    /\ IF mediaRecorder.state = "recording"
       THEN UNCHANGED <<mediaRecorder, chunks, sessionId, chunkSequence, chunkInterval,
                        timers, oldStops, nextSession, startTime, pausedDuration,
                        pauseStartTime, running, recTime>>
       ELSE /\ sessionId' = nextSession
            /\ nextSession' = nextSession + 1
            /\ chunks' = <<>>
            /\ chunkSequence' = 0
            /\ pausedDuration' = 0
            /\ pauseStartTime' = NULL
            /\ recTime' = 0
            /\ oldStops' = IF mediaRecorder.stopPending
                           THEN Append(oldStops, [ onstop |-> mediaRecorder.onstop,
                                                   sid |-> mediaRecorder.sid ])
                           ELSE oldStops
            /\ \E bound \in BOOLEAN :
                 IF bound
                 THEN /\ mediaRecorder' = [ state |-> "recording", onstop |-> LogHandler,
                                            stopPending |-> FALSE, sid |-> nextSession ]
                      /\ startTime' = now
                      /\ timers' = IF chunkInterval THEN timers ELSE timers + 1
                      /\ chunkInterval' = TRUE
                      /\ running' = TRUE
                 ELSE /\ mediaRecorder' = [ state |-> "inactive", onstop |-> NoHandler,
                                            stopPending |-> FALSE, sid |-> nextSession ]
                      /\ running' = FALSE
                      /\ UNCHANGED <<timers, chunkInterval, startTime>>
    /\ UNCHANGED now
    /\ QuietSync
    /\ UNCHANGED <<catalogVars, chunkStore, conts, appPc, hstop, nextFrag, captured>>
    /\ UNCHANGED cancelled
    /\ UNCHANGED driveVars
    /\ UNCHANGED cleared
    /\ UNCHANGED auxVars

\* the setInterval callback of startChunkInterval (js/recorder.js)
TimerFlushInfo ==
    /\ timers > 0
    /\ RoomToFlushInfo
    /\ saveCurrentChunkInfo
    /\ QuietSync
    /\ UNCHANGED <<catalogVars, mediaRecorder, chunks, sessionId, chunkInterval,
                   timers, oldStops, appPc, hstop, nextFrag, nextSession, captured>>
    /\ UNCHANGED timeVars
    /\ UNCHANGED cancelled
    /\ UNCHANGED driveVars
    /\ UNCHANGED cleared
    /\ UNCHANGED auxVars

\* the setInterval callback of js/recorder.js when StorageService.saveChunk
\* rejects: chunkSequence++ ran while chunkInfo was built, and the rejection
\* leaves saveCurrentChunk at its await
TimerFlushFailInfo ==
    /\ timers > 0
    /\ Len(chunks) > 0
    /\ failedFlushes < MaxFlushFails
    /\ failedFlushes' = failedFlushes + 1
    /\ UNCHANGED storeCall
    /\ chunkSequence' = chunkSequence + 1
    /\ QuietSync
    /\ UNCHANGED <<catalogVars, chunkStore, conts, mediaRecorder, chunks, sessionId,
                   chunkInterval, timers, oldStops, appPc, hstop, nextFrag, nextSession,
                   captured>>
    /\ UNCHANGED timeVars
    /\ UNCHANGED cancelled
    /\ UNCHANGED driveVars
    /\ UNCHANGED cleared

\* pause() of js/recorder.js
PauseInfo ==
    /\ RoomToFlushInfo
    /\ IF mediaRecorder.state = "recording"
       THEN /\ mediaRecorder' = [ mediaRecorder EXCEPT !.state = "paused" ]
            /\ pauseStartTime' = now
            /\ running' = FALSE
            /\ saveCurrentChunkInfo
       ELSE UNCHANGED <<mediaRecorder, chunkStore, conts, chunkSequence, pauseStartTime,
                        running>>
    /\ UNCHANGED <<now, startTime, pausedDuration, recTime>>
    /\ QuietSync
    /\ UNCHANGED <<catalogVars, chunks, sessionId, chunkInterval, timers, oldStops,
                   appPc, hstop, nextFrag, nextSession, captured>>
    /\ UNCHANGED cancelled
    /\ UNCHANGED driveVars
    /\ UNCHANGED cleared
    /\ UNCHANGED auxVars

\* saveCurrentChunk of js/recorder.js after its first await: the buffer is
\* emptied; StorageService.saveRecoveryData is no function, and the call ends there
ContFlushInfo ==
    /\ chunks' = <<>>
    /\ UNCHANGED <<sessionId, chunkSequence, hstop, catalogVars>>

StopEventInfo == StopEventWith(getElapsedTimeInfo)

OldStopEventInfo == OldStopEventWith(getElapsedTimeInfo)

\* the oldest chunk-store request completes and its continuation runs
ChunkRequestDoneInfo ==
    /\ conts # <<>>
    /\ LET c == Head(conts)
       IN  CASE c.kind = "flush" -> ContFlushInfo
             [] c.kind = "stopClear" -> ContStopClear(c.k, c.blob)
    /\ conts' = Tail(conts)
    /\ QuietSync
    /\ UNCHANGED <<chunkStore, mediaRecorder, chunkInterval, timers, oldStops,
                   appPc, nextFrag, nextSession, captured>>
    /\ UNCHANGED timeVars
    /\ UNCHANGED cancelled
    /\ UNCHANGED driveVars
    /\ UNCHANGED cleared
    /\ UNCHANGED auxVars

\* time passes
Tick ==
    /\ now < T0 + MaxTicks * TickMs
    /\ now' = now + TickMs
    /\ recTime' = IF running THEN recTime + TickMs ELSE recTime
    /\ QuietSync
    /\ UNCHANGED <<catalogVars, chunkStore, mediaRecorder, chunks, sessionId, chunkSequence,
                   chunkInterval, timers, conts, oldStops, appPc, hstop, nextFrag,
                   nextSession, captured, startTime, pausedDuration, pauseStartTime,
                   running>>
    /\ UNCHANGED cancelled
    /\ UNCHANGED driveVars
    /\ UNCHANGED cleared
    /\ UNCHANGED auxVars

NextRecorderJs ==
    \/ StartInfo
    \/ Capture
    \/ TimerFlushInfo
    \/ PauseInfo
    \/ Resume
    \/ HandleStop
    \/ StopEventInfo
    \/ OldStopEventInfo
    \/ ChunkRequestDoneInfo
    \/ HandleStopSaved

SpecRecorderJs == InitSync /\ [][NextRecorderJs]_vars

\* js/recorder.js with chunk-store writes that can fail
NextFlushFailJs == NextRecorderJs \/ TimerFlushFailInfo

SpecFlushFailJs == InitSync /\ [][NextFlushFailJs]_vars

\* part_000 (start, capture, flush, pause, resume) with chunk-store writes
\* that can fail
NextFlushFail ==
    \/ Start
    \/ Capture
    \/ TimerFlush
    \/ TimerFlushFail
    \/ ChunkRequestDone
    \/ Pause
    \/ Resume

SpecFlushFail == InitSync /\ [][NextFlushFail]_vars

\* ----------------------------------------------- DriveService (drive.js)

\* a path is its segments between the slashes, as path.split('/') gives them;
\* an empty segment stands for a doubled, leading or trailing slash
FolderNames == {"A"}
Paths == UNION { [ 1..n -> FolderNames \cup {""} ] : n \in 1..MaxDepth }

\* the id 'root'
RootId == -1

IdleEnsure == [ pc |-> "idle", path |-> <<>>, parts |-> <<>>, idx |-> 0, parentId |-> NULL ]

\* path.split('/').filter(p => p && p.trim() !== '')
RECURSIVE FilterParts(_)
FilterParts(path) ==
    IF path = <<>> THEN <<>>
    ELSE (IF Head(path) # "" THEN <<Head(path)>> ELSE <<>>) \o FilterParts(Tail(path))

\* folderCache.set(key, id)
CachePut(cache, key, id) ==
    [ k \in DOMAIN cache \cup {key} |-> IF k = key THEN id ELSE cache[k] ]

\* the ids findFolder can return for a name under a parent: data.files[0] of
\* the folders that match, in the order the remote store lists them
FindFolder(folders, name, parentId) ==
    { f.id : f \in { g \in folders : g.name = name /\ g.parent = parentId } }

\* one iteration of the loop that always creates the folder
SegmentOutcomes_alwaysCreate(cache, folders, key, name, parentId) ==
    { [ id |-> NULL, cache |-> cache, folders |-> folders ] }
    \cup IF Cardinality(folders) < MaxFolders
         THEN LET id == Cardinality(folders) + 1
              IN  { [ id |-> id, cache |-> cache,
                      folders |-> folders \cup { [ id |-> id, name |-> name,
                                                   parent |-> parentId ] } ] }
         ELSE {}

\* one iteration of the loop of ensureFolderPath: what it can return as the id
\* of the segment (NULL: findFolder or createFolder throws), with the cache and
\* the remote folders it leaves
SegmentOutcomes(cache, folders, key, name, parentId) ==
    IF key \in DOMAIN cache
    THEN { [ id |-> cache[key], cache |-> cache, folders |-> folders ] }
    ELSE { [ id |-> NULL, cache |-> cache, folders |-> folders ] }
         \cup IF FindFolder(folders, name, parentId) # {}
              THEN { [ id |-> id, cache |-> CachePut(cache, key, id), folders |-> folders ] :
                       id \in FindFolder(folders, name, parentId) }
              ELSE IF Cardinality(folders) < MaxFolders
              THEN LET id == Cardinality(folders) + 1
                   IN  { [ id |-> id, cache |-> CachePut(cache, key, id),
                           folders |-> folders \cup { [ id |-> id, name |-> name,
                                                        parent |-> parentId ] } ] }
              ELSE {}

\* the history of the ids returned
Return(r, path, id) ==
    [ k \in DOMAIN r \cup {path} |->
        IF k = path THEN [ id |-> id, n |-> IF path \in DOMAIN r THEN r[path].n + 1 ELSE 1 ]
        ELSE r[k] ]

\* ensureFolderPath(path) is called: a cached path returns at once
EnsureCall ==
    /\ ensure.pc = "idle"
    /\ ensureCalls < MaxEnsureCalls
    /\ ensureCalls' = ensureCalls + 1
    /\ \E path \in Paths :
         IF path \in DOMAIN folderCache
         THEN /\ returned' = Return(returned, path, folderCache[path])
              /\ UNCHANGED ensure
         ELSE /\ ensure' = [ pc |-> "loop", path |-> path, parts |-> FilterParts(path),
                             idx |-> 1, parentId |-> RootId ]
              /\ UNCHANGED returned
    /\ UNCHANGED <<folderCache, driveFolders>>
    /\ UNCHANGED <<catalogVars, syncVars, recorderVars, cleared, auxVars>>

\* ensureFolderPath, one iteration of its loop
EnsureSegment ==
    /\ ensure.pc = "loop"
    /\ ensure.idx <= Len(ensure.parts)
    /\ \E o \in SegmentOutcomes(folderCache, driveFolders,
                                 SubSeq(ensure.parts, 1, ensure.idx),
                                 ensure.parts[ensure.idx], ensure.parentId) :
         /\ folderCache' = o.cache
         /\ driveFolders' = o.folders
         /\ ensure' = IF o.id = NULL THEN IdleEnsure
                      ELSE [ ensure EXCEPT !.idx = @ + 1, !.parentId = o.id ]
    /\ UNCHANGED <<returned, ensureCalls>>
    /\ UNCHANGED <<catalogVars, syncVars, recorderVars, cleared, auxVars>>

\* ensureFolderPath after its loop: folderCache.set(path, parentId); return parentId
EnsureReturn ==
    /\ ensure.pc = "loop"
    /\ ensure.idx > Len(ensure.parts)
    /\ folderCache' = CachePut(folderCache, ensure.path, ensure.parentId)
    /\ returned' = Return(returned, ensure.path, ensure.parentId)
    /\ ensure' = IdleEnsure
    /\ UNCHANGED <<driveFolders, ensureCalls>>
    /\ UNCHANGED <<catalogVars, syncVars, recorderVars, cleared, auxVars>>

\* signOut: folderCache.clear()
ClearFolderCache ==
    /\ folderCache # << >>
    /\ folderCache' = << >>
    /\ UNCHANGED <<driveFolders, ensure, returned, ensureCalls>>
    /\ UNCHANGED <<catalogVars, syncVars, recorderVars, cleared, auxVars>>

NextFolders ==
    \/ EnsureCall
    \/ EnsureSegment
    \/ EnsureReturn
    \/ ClearFolderCache

SpecFolders == InitSync /\ [][NextFolders]_vars

\* the recording session of part_000 under a running clock
NextClock ==
    \/ Start
    \/ Capture
    \/ TimerFlush
    \/ Pause
    \/ Resume
    \/ HandleStop
    \/ StopEvent
    \/ OldStopEvent
    \/ ChunkRequestDone
    \/ HandleStopSaved
    \/ Cancel
    \/ Tick

SpecClock == InitSync /\ [][NextClock]_vars

\* the recording session of js/recorder.js under a running clock
NextClockJs ==
    \/ NextRecorderJs
    \/ Tick

SpecClockJs == InitSync /\ [][NextClockJs]_vars

\* ------------------------------------------------------------------ claims

ActivePasses == { t \in Slots : pass[t].pc # "idle" }

\* C1: single-flight sync. At most one invocation of syncRecordings is past
\* its guard at any time, the flag is set whenever one is, and a call that
\* arrives while a pass is in progress changes neither the pass, the flag nor
\* any catalog entry.
C1_SingleFlight ==
    /\ [](Cardinality(ActivePasses) <= 1 /\ (ActivePasses # {} => isSyncing))
    /\ [][ (isSyncing /\ lastCall' \in {"noop", "started"})
             => /\ lastCall' = "noop"
                /\ UNCHANGED <<pass, isSyncing>>
                /\ \A i \in DOMAIN recordings :
                     i \in DOMAIN recordings' /\ recordings'[i] = recordings[i] ]_vars

\* C1 witness: a trigger has just returned at the guard while the running
\* pass has an upload in flight
C1_Witness ==
    /\ lastCall = "noop"
    /\ isSyncing
    /\ \E t \in Slots : pass[t].pc = "inflight"

\* C2: retry bound / dead letter. retryCount never exceeds MAX_RETRY_COUNT; a
\* recording at the bound has status failed; a recording whose upload failed
\* MAX_RETRY_COUNT times (the catch block run to its end each time) has
\* retryCount = MAX_RETRY_COUNT; and no step changes a recording at the bound
\* or calls the uploader for it.
C2_RetryBound ==
    /\ [](\A i \in DOMAIN recordings :
            /\ recordings[i].retryCount <= MAX_RETRY_COUNT
            /\ (recordings[i].retryCount >= MAX_RETRY_COUNT
                  => recordings[i].status = "failed")
            /\ (i \in DOMAIN failures /\ failures[i] >= MAX_RETRY_COUNT
                  => /\ recordings[i].retryCount = MAX_RETRY_COUNT
                     /\ recordings[i].status = "failed"))
    /\ [][ \A i \in DOMAIN recordings :
             recordings[i].retryCount >= MAX_RETRY_COUNT
               => /\ i \in DOMAIN recordings'
                  /\ recordings'[i] = recordings[i]
                  /\ \A t \in Slots : i \in pass'[t].attempted => i \in pass[t].attempted
         ]_vars

\* C2 witness: a pass has walked past a dead-lettered recording of its list
C2_Witness ==
    \E t \in Slots :
        /\ pass[t].pc = "finishing"
        /\ \E k \in 1..Len(pass[t].list) :
             LET i == pass[t].list[k].id
             IN  /\ pass[t].list[k].retryCount = MAX_RETRY_COUNT
                 /\ recordings[i].retryCount = MAX_RETRY_COUNT
                 /\ recordings[i].status = "failed"
                 /\ failures[i] = MAX_RETRY_COUNT
                 /\ i \notin pass[t].attempted

\* the orderings of n chunks
Orderings(n) == { f \in [ 1..n -> 1..n ] : \A a, b \in 1..n : a # b => f[a] # f[b] }

RECURSIVE ConcatVia(_, _, _)
ConcatVia(cs, f, a) ==
    IF a > Len(cs) THEN <<>> ELSE cs[f[a]].blob \o ConcatVia(cs, f, a + 1)

\* blob is the chunks of session sid in the store, joined in an ascending order
\* of their sequence numbers
IsAscendingConcat(blob, store, sid) ==
    LET cs == OfSession(store, sid)
    IN  \E f \in Orderings(Len(cs)) :
          /\ \A a, b \in 1..Len(cs) : a < b => cs[f[a]].sequence <= cs[f[b]].sequence
          /\ blob = ConcatVia(cs, f, 1)

\* C5: crash recovery. At startup checkForRecovery walks every session that has
\* a chunk in the store; for each it inserts exactly one catalog entry, pending
\* and flagged recovered, whose payload is the session's chunks joined in
\* ascending sequence order, and then leaves no chunk of the session behind; when
\* it is done no chunk is left at all.
C5_CrashRecovery ==
    /\ [](appPc.pc = "recover" /\ appPc.idx = 1
            => \A c \in 1..Len(chunkStore) :
                  \E a \in 1..Len(appPc.list) : appPc.list[a] = chunkStore[c].sessionId)
    /\ [][ (appPc.pc = "recover" /\ appPc'.pc # "boot")
             => LET sid == appPc.list[appPc.idx]
                IN  /\ OfSession(chunkStore, sid) # <<>>
                    /\ DOMAIN recordings' = DOMAIN recordings \cup {nextId}
                    /\ nextId \notin DOMAIN recordings
                    /\ \A i \in DOMAIN recordings : recordings'[i] = recordings[i]
                    /\ recordings'[nextId].status = "pending"
                    /\ recordings'[nextId].synced = 0
                    /\ recordings'[nextId].recovered
                    /\ recordings'[nextId].originalSessionId = sid
                    /\ IsAscendingConcat(recordings'[nextId].blob, chunkStore, sid)
                    /\ appPc'.pc = "clear" ]_vars
    /\ [][ (appPc.pc = "clear" /\ appPc'.pc # "boot")
             => /\ getSessionChunks(chunkStore', appPc.list[appPc.idx]) = <<>>
                /\ appPc'.pc = "ready" => chunkStore' = <<>> ]_vars

\* C5 witness: recovery is done, and it has rebuilt a recording from a session
\* that had left two chunks behind (the buffer <<1>>, then the buffer <<1, 2>>)
C5_Witness ==
    /\ appPc.pc = "ready"
    /\ chunkStore = <<>>
    /\ \E i \in DOMAIN recordings :
         /\ recordings[i].recovered
         /\ recordings[i].status = "pending"
         /\ recordings[i].blob = <<1, 1, 2>>

\* C6: chunk sequence integrity. In every state, the chunks persisted for a
\* session carry the sequence numbers 0, 1, ..., n-1, in this order.
C6_SequenceIntegrity ==
    \A sid \in 1..MaxSessions :
        LET cs == getSessionChunks(chunkStore, sid)
        IN  \A a \in 1..Len(cs) : cs[a].sequence = a - 1

\* C7: stop durability ordering. Whenever stop has cleared the chunks of the
\* session and the promise of stop() is still pending, the catalog already
\* holds the entry with the payload of the session.
C7_StopDurability ==
    \A k \in StopSlots :
        hstop[k].pc = "clearing" /\ Len(hstop[k].blob) > 0
          => \E i \in DOMAIN recordings : recordings[i].blob = hstop[k].blob

\* C8: single active session. While the MediaRecorder is recording or paused no
\* step starts a new session (start() then leaves the session as it is), and
\* there is never more than one flush timer.
C8_SingleSession ==
    /\ [](timers <= 1)
    /\ [][ mediaRecorder.state \in {"recording", "paused"}
             => nextSession' = nextSession ]_vars

Eligible(t) == { j \in 1..Len(pass[t].list) : ~TooManyRetries(pass[t].list[j]) }

\* C3: one failure never aborts the pass. When the loop of a pass is over, the
\* uploader has been called for every snapshot of its list that the loop does
\* not skip; and a pass that is inside the loop never ends there (unless the
\* page is closed).
C3_NoAbort ==
    /\ [](\A t \in Slots :
            pass[t].pc = "finishing"
                => \A j \in Eligible(t) : pass[t].list[j].id \in pass[t].attempted)
    /\ [][ \A t \in Slots :
             (pass[t].pc \notin {"idle", "fetch", "finishing"} /\ lastCall' # "restarted")
                 => pass'[t].pc # "idle" ]_vars

\* C3 witness: a pass over two recordings is through its loop, the upload of
\* the first one failed in this pass and the second one was attempted all the same
C3_Witness ==
    \E t \in Slots :
        /\ pass[t].pc = "finishing"
        /\ Len(pass[t].list) = 2
        /\ pass[t].list[1].id \in DOMAIN recordings
        /\ recordings[pass[t].list[1].id].status = "failed"
        /\ pass[t].list[2].id \in pass[t].attempted

\* C9: every recording with status synced carries a remote file id.
C9_SyncedHasFileId ==
    \A i \in DOMAIN recordings :
        recordings[i].status = "synced" => recordings[i].driveFileId # NULL

\* C9 witness: a pass has marked a recording synced
C9_Witness ==
    \E i \in DOMAIN recordings :
        recordings[i].status = "synced" /\ recordings[i].driveFileId \in FileIds

\* C10: the synced flag is 1 exactly for the recordings with status synced.
C10_SyncedFlag ==
    \A i \in DOMAIN recordings :
        recordings[i].synced \in {0, 1}
        /\ (recordings[i].synced = 1 <=> recordings[i].status = "synced")

\* C10 witness: the catalog holds a synced recording next to one that went
\* through updateRecordingStatus(id, 'failed') and incrementRetryCount
C10_Witness ==
    \E i, j \in DOMAIN recordings :
        /\ recordings[i].status = "synced" /\ recordings[i].synced = 1
        /\ recordings[j].status = "failed" /\ recordings[j].retryCount > 0
        /\ recordings[j].synced = 0

\* C11: retryCount never decreases. No step lowers the retryCount of a recording
\* that the catalog holds before and after the step.
C11_RetryMonotone ==
    [][ \A i \in DOMAIN recordings \cap DOMAIN recordings' :
          recordings'[i].retryCount >= recordings[i].retryCount ]_vars

\* C11 witness: a recording whose upload failed twice was uploaded in the end,
\* next to a younger recording: increments, status updates and an insertion
\* have all acted on the catalog
C11_Witness ==
    \E i, j \in DOMAIN recordings :
        /\ i < j
        /\ recordings[i].retryCount = 2
        /\ recordings[i].status = "synced"

C14_Finalization ==
    [][ \A k \in StopSlots :
          (/\ hstop[k].pc = "clearing"
           /\ hstop'[k].pc # "clearing"
           /\ appPc'.pc # "boot"
           /\ hstop[k].sid # NULL
           /\ captured[hstop[k].sid] # <<>>)
            => /\ OfSession(chunkStore', hstop[k].sid) = <<>>
               /\ DOMAIN recordings' = DOMAIN recordings \cup {nextId}
               /\ nextId \notin DOMAIN recordings
               /\ \A i \in DOMAIN recordings : recordings'[i] = recordings[i]
               /\ recordings'[nextId].status = "pending"
               /\ recordings'[nextId].synced = 0
               /\ recordings'[nextId].retryCount = 0 ]_vars

\* C15: cancel. Once cancel() of a session that was recording or paused has
\* completed, the store holds no chunk of the session and the catalog no entry
\* made of it, now and ever after; and when it completes the session is idle
\* (unless start() has begun another one meanwhile).
C15_Cancel ==
    /\ [](\A sid \in cancelled :
            /\ OfSession(chunkStore, sid) = <<>>
            /\ \A i \in DOMAIN recordings :
                 /\ recordings[i].originalSessionId # sid
                 /\ \A a \in 1..Len(recordings[i].blob), b \in 1..Len(captured[sid]) :
                      recordings[i].blob[a] # captured[sid][b])
    /\ [][ \A sid \in cancelled' \ cancelled :
             mediaRecorder'.sid = sid
               => sessionId' = NULL /\ mediaRecorder'.state = "inactive" ]_vars

\* C16: stop() without an active session fails. While the MediaRecorder is
\* neither recording nor paused, no step leaves an invocation of handleStop
\* waiting for the promise of stop(): the call is rejected at once, so it
\* cannot stay pending and cannot lead to a catalog entry.
C16_StopIdle ==
    [][ mediaRecorder.state \notin {"recording", "paused"}
          => \A k \in StopSlots : hstop[k].pc = "idle" => hstop'[k].pc = "idle" ]_vars

\* C17: expired authentication. When the retry that follows a re-authentication
\* fails, with status 401 or any other, the item is marked failed and the pass
\* goes on: for one item of one pass there is one re-authentication and one
\* retry at most, so two upload calls at most.
C17_AuthExpired ==
    [][ \A t \in Slots :
          (pass[t].pc = "inflight" /\ pass[t].retried /\ lastCall' # "restarted")
            => \/ pass'[t] = pass[t]
               \/ pass'[t].pc = "item" /\ recordings'[CurId(t)].status = "synced"
               \/ pass'[t].pc = "incRetry" /\ recordings'[CurId(t)].status = "failed" ]_vars

\* C18: ensureFolderPath is idempotent. Every call that returns for a path
\* returns the id the earlier calls returned for it, and the remote store
\* never holds two folders for one path segment (one name under one parent).
C18_EnsureFolderIdempotent ==
    /\ [][ \A p \in DOMAIN returned : returned'[p].id = returned[p].id ]_vars
    /\ [](\A f, g \in driveFolders :
            (f.name = g.name /\ f.parent = g.parent) => f.id = g.id)

\* C18 witness: a path of two segments was resolved through the remote store
\* and a second call returned for it
C18_Witness ==
    \E p \in DOMAIN returned :
        /\ Len(FilterParts(p)) = 2
        /\ returned[p].n = 2
        /\ Cardinality(driveFolders) = 2

C20_EventualUpload ==
    \A i \in 1..MaxRec :
        (i \in DOMAIN recordings /\ recordings[i].status # "synced"
            /\ recordings[i].retryCount < MAX_RETRY_COUNT)
        ~> (i \in DOMAIN recordings /\ recordings[i].status = "synced")

\* C20 witness: recording 1, left failed with four retries, is synced, and
\* recording 2, saved after the snapshot of that pass was taken, is synced by
\* a later pass whose snapshot held nothing else
C20_Witness ==
    /\ DOMAIN recordings = {1, 2}
    /\ recordings[1].status = "synced"
    /\ recordings[1].retryCount = MAX_RETRY_COUNT - 1
    /\ recordings[2].status = "synced"
    /\ \E t \in Slots : pass[t].pc = "item" /\ pass[t].idx = 2
                         /\ Len(pass[t].list) = 1 /\ pass[t].list[1].id = 2

\* C21: sync pass no-op. A call of syncRecordings made while isSyncing is
\* true, or while the network is offline, or while the uploader is not
\* authenticated returns at the guard: it changes no catalog entry, starts no
\* pass (so calls no uploader) and leaves isSyncing as it was.
C21_SyncNoop ==
    [][ (lastCall' \in {"noop", "started"} /\ (isSyncing \/ ~online' \/ ~signedIn))
          => /\ lastCall' = "noop"
             /\ isSyncing' = isSyncing
             /\ pass' = pass
             /\ \A i \in DOMAIN recordings :
                  i \in DOMAIN recordings' /\ recordings'[i] = recordings[i] ]_vars

\* C21 witness: after an upload and a signOut, with the network up and no pass
\* running, a call has returned at the guard although a pending recording waits
C21_Witness ==
    /\ lastCall = "noop"
    /\ ~signedIn
    /\ online
    /\ ~isSyncing
    /\ \E i, j \in DOMAIN recordings :
         recordings[i].status = "pending" /\ recordings[j].status = "synced"

\* C22: the catalog query of the sync queue. The list that getUnsyncedRecordings
\* hands to a pass holds exactly the recordings with status pending or failed
\* and retryCount < MAX_RETRY_COUNT.
C22_FetchQuery ==
    [][ \A t \in Slots :
          (pass[t].pc = "fetch" /\ lastCall' # "restarted" /\ pass'[t].pc # "fetch")
            => { pass'[t].list[k].id : k \in 1..Len(pass'[t].list) }
                 = { i \in DOMAIN recordings :
                       /\ recordings[i].status \in {"pending", "failed"}
                       /\ recordings[i].retryCount < MAX_RETRY_COUNT } ]_vars

\* C23: clearSyncedRecordings deletes exactly the recordings whose synced flag
\* is 1, resolves with the number deleted, and leaves every recording with
\* status pending, uploading or failed as it was.
C23_ClearSynced ==
    [][ (cleared' # cleared \/ ~(DOMAIN recordings \subseteq DOMAIN recordings'))
          => /\ DOMAIN recordings' = { i \in DOMAIN recordings : recordings[i].synced # 1 }
             /\ cleared' = Cardinality(DOMAIN recordings \ DOMAIN recordings')
             /\ \A i \in DOMAIN recordings :
                  recordings[i].status \in {"pending", "uploading", "failed"}
                    => i \in DOMAIN recordings' /\ recordings'[i] = recordings[i] ]_vars

\* C23 witness: one synced recording was deleted and counted, and a failed one
\* is still in the catalog
C23_Witness ==
    /\ cleared = 1
    /\ nextId = 3
    /\ Cardinality(DOMAIN recordings) = 1
    /\ \E i \in DOMAIN recordings : recordings[i].status = "failed"

\* C24: guard release. Every pass that sets isSyncing to true sets it back to
\* false in the end, whatever the pass meets: isSyncing never stays true for
\* ever.
C24_GuardRelease == isSyncing ~> ~isSyncing

\* the passes with a call of DriveService.uploadRecording that has not returned
\* (the request is out, or the call waits for signIn() to retry)
UploadsInFlight == { t \in Slots : pass[t].pc \in {"inflight", "reauth"} }

\* C25: uploads are strictly sequential. At every moment at most one call of
\* uploadRecording is in flight, over all recordings and all triggers.
C25_SequentialUploads == Cardinality(UploadsInFlight) <= 1

\* C25 witness: a pass over two recordings has uploaded the first and has the
\* upload of the second in flight
C25_Witness ==
    \E t \in Slots :
        /\ pass[t].pc = "inflight"
        /\ Len(pass[t].list) = 2
        /\ pass[t].idx = 2
        /\ recordings[pass[t].list[1].id].status = "synced"
        /\ recordings[pass[t].list[2].id].status = "uploading"

\* C26: uploading marker ordering. The status of a recording is uploading in
\* the store before the uploader is called for it, and it stays uploading for
\* as long as the call is in flight.
C26_UploadingMarker ==
    /\ [](\A t \in UploadsInFlight :
            CurId(t) \in DOMAIN recordings /\ recordings[CurId(t)].status = "uploading")
    /\ [][ \A t \in Slots :
             (pass[t].pc = "uploading" /\ pass'[t].pc = "inflight")
               => recordings[CurId(t)].status = "uploading" ]_vars

\* C26 witness: the upload of a recording that had failed once is in flight,
\* and its status is uploading again
C26_Witness ==
    \E t \in Slots :
        /\ pass[t].pc = "inflight"
        /\ recordings[CurId(t)].status = "uploading"
        /\ recordings[CurId(t)].retryCount = 1

\* C27: a crash in mid-upload is retryable. A recording that a reload left with
\* status uploading and retryCount < MAX_RETRY_COUNT is in the list of the next
\* pass (the first after the restart), and when the loop of a pass comes to
\* such a snapshot it does not skip it: it goes on to the upload of it.
C27_CrashMidUpload ==
    /\ [][ \A t \in Slots :
             (pass[t].pc = "fetch" /\ lastCall' # "restarted" /\ pass'[t].pc # "fetch")
               => \A i \in DOMAIN recordings :
                    (recordings[i].status = "uploading"
                        /\ recordings[i].retryCount < MAX_RETRY_COUNT)
                      => \E k \in 1..Len(pass'[t].list) : pass'[t].list[k].id = i ]_vars
    /\ [][ \A t \in Slots :
             (/\ pass[t].pc = "item"
              /\ pass[t].idx <= Len(pass[t].list)
              /\ recordings[CurId(t)].status = "uploading"
              /\ recordings[CurId(t)].retryCount < MAX_RETRY_COUNT
              /\ pass'[t] # pass[t]
              /\ lastCall' # "restarted")
               => /\ pass'[t].pc = "uploading"
                  /\ pass'[t].idx = pass[t].idx
                  /\ recordings'[CurId(t)].status = "uploading" ]_vars

\* C27 witness: a pass over two recordings has attempted the first and comes to
\* the second, which no pass of this page has touched and whose status is
\* uploading: a reload during its upload left it so
C27_Witness ==
    \E t \in Slots :
        /\ pass[t].pc = "item"
        /\ Len(pass[t].list) = 2
        /\ pass[t].idx = 2
        /\ pass[t].list[1].id \in pass[t].attempted
        /\ recordings[pass[t].list[2].id].status = "uploading"
        /\ recordings[pass[t].list[2].id].retryCount < MAX_RETRY_COUNT

\* C28: pause and resume. The MediaRecorder becomes paused only from recording,
\* in a step that records pauseStartTime = now and leaves pausedDuration and
\* the buffer alone; pauseStartTime is set by such a step only. A paused
\* MediaRecorder goes back to recording only in a step that adds
\* now - pauseStartTime to pausedDuration, clears pauseStartTime and leaves the
\* buffer and the chunk store alone; pausedDuration grows in such a step only.
\* (pause() and resume() in any other state change nothing.)
C28_PauseResume ==
    [][ /\ ((mediaRecorder'.state = "paused" /\ mediaRecorder.state # "paused")
              \/ (pauseStartTime' # pauseStartTime /\ pauseStartTime' # NULL))
            => /\ mediaRecorder.state = "recording"
               /\ mediaRecorder' = [ mediaRecorder EXCEPT !.state = "paused" ]
               /\ pauseStartTime' = now
               /\ pausedDuration' = pausedDuration
               /\ chunks' = chunks
               /\ sessionId' = sessionId
        /\ ((mediaRecorder.state = "paused" /\ mediaRecorder'.state = "recording"
                /\ mediaRecorder'.sid = mediaRecorder.sid)
              \/ pausedDuration' > pausedDuration)
            => /\ mediaRecorder.state = "paused"
               /\ mediaRecorder' = [ mediaRecorder EXCEPT !.state = "recording" ]
               /\ pauseStartTime # NULL
               /\ pausedDuration' = pausedDuration + (now - pauseStartTime)
               /\ pauseStartTime' = NULL
               /\ chunks' = chunks
               /\ chunkStore' = chunkStore
               /\ sessionId' = sessionId ]_vars

\* C28 witness: a session was paused for two ticks of the clock and resumed
C28_Witness ==
    /\ mediaRecorder.state = "recording"
    /\ pauseStartTime = NULL
    /\ pausedDuration = 2 * TickMs
    /\ now = startTime + 3 * TickMs

\* the fragments held by the chunks that the store has for a session
FragmentsStored(store, sid) ==
    UNION { { store[c].blob[f] : f \in 1..Len(store[c].blob) } :
              c \in { d \in 1..Len(store) : store[d].sessionId = sid } }

\* C29: pause() flushes at once. The step that pauses a recording MediaRecorder
\* whose buffer is not empty issues the write of a chunk itself (no timer tick
\* in between), and with that write every fragment captured in the session
\* before the pause is in the chunk store.
C29_PauseFlush ==
    [][ (mediaRecorder.state = "recording" /\ mediaRecorder'.state = "paused"
            /\ chunks # <<>>)
          => /\ Len(chunkStore') = Len(chunkStore) + 1
             /\ Len(conts') = Len(conts) + 1
             /\ conts'[Len(conts')].kind = "flush"
             /\ \A f \in 1..Len(captured[mediaRecorder.sid]) :
                  captured[mediaRecorder.sid][f]
                    \in FragmentsStored(chunkStore', mediaRecorder.sid) ]_vars

\* a flush has been issued in this step / the oldest pending flush completes
FlushIssued == Len(conts') = Len(conts) + 1 /\ conts'[Len(conts')].kind = "flush"
FlushCompleted == conts # <<>> /\ Head(conts).kind = "flush" /\ conts' = Tail(conts)

\* C30: the flush step. A chunk is appended to the store only by a flush with a
\* non-empty buffer, one chunk at a time, and it carries the current sessionId
\* and the current sequence counter; the flush that pause() makes with a
\* non-empty buffer does append a chunk; and the counter moves only to 0 (a new
\* session) or up by one, for a flush.
C30_FlushStep ==
    [][ /\ Len(chunkStore') > Len(chunkStore)
            => /\ chunks # <<>>
               /\ FlushIssued
               /\ chunkStore' = Append(chunkStore, [ sessionId |-> sessionId,
                                                     sequence |-> chunkSequence,
                                                     blob |-> chunks ])
        /\ (mediaRecorder.state = "recording" /\ mediaRecorder'.state = "paused"
               /\ chunks # <<>>)
            => Len(chunkStore') = Len(chunkStore) + 1
        /\ chunkSequence' # chunkSequence
            => \/ chunkSequence' = 0
               \/ chunkSequence' = chunkSequence + 1 /\ (FlushIssued \/ FlushCompleted)
      ]_vars

C32_SyncedTerminal ==
    /\ [][ \A i \in DOMAIN recordings :
             (recordings[i].status = "synced" /\ i \in DOMAIN recordings')
               => recordings'[i] = recordings[i] ]_vars
    /\ [](\A t \in Slots :
            pass[t].pc \in {"uploading", "inflight", "reauth", "incRetry"}
              => CurId(t) \in DOMAIN recordings /\ recordings[CurId(t)].status # "synced")

\* C32 witness: a pass has an upload in flight while the catalog holds a synced
\* recording, which is not in the list of the pass
C32_Witness ==
    \E t \in Slots :
        /\ pass[t].pc = "inflight"
        /\ \E i \in DOMAIN recordings :
             /\ recordings[i].status = "synced"
             /\ \A k \in 1..Len(pass[t].list) : pass[t].list[k].id # i

C34_RetryAccounting ==
    /\ [][ \A t \in Slots :
             /\ (pass[t].pc = "item" /\ pass'[t].pc = "uploading")
                  => pass'[t].list[pass'[t].idx].id \notin pass[t].attempted
             /\ (pass[t].pc = "incRetry" /\ pass'[t] # pass[t])
                  => /\ recordings[CurId(t)].status = "failed"
                     /\ recordings'[CurId(t)].status = "failed"
                     /\ recordings'[CurId(t)].retryCount
                          = recordings[CurId(t)].retryCount + 1 ]_vars
    /\ [][ \A i \in DOMAIN recordings \cap DOMAIN recordings' :
             recordings'[i].retryCount # recordings[i].retryCount
               => /\ recordings'[i].retryCount = recordings[i].retryCount + 1
                  /\ \E t \in Slots : pass[t].pc = "incRetry" /\ CurId(t) = i ]_vars
    /\ [](\A i \in DOMAIN recordings : recordings[i].retryCount = failures[i])

\* C34 witness: two passes have failed on a recording, and its retryCount is 2
C34_Witness ==
    /\ ~isSyncing
    /\ \E i \in DOMAIN recordings :
         /\ recordings[i].status = "failed"
         /\ recordings[i].retryCount = 2
         /\ failures[i] = 2

\* C35: losing the sign-in while a sync pass is in progress leaves alone the
\* recordings of the pass whose upload has not started: when the pass comes
\* to call uploadRecording for a recording while signed out, the step does
\* not mark the recording failed and does not lead to the increment of its
\* retryCount.
C35_LossSparesUnstarted ==
    [][ \A t \in Slots :
          (pass[t].pc = "uploading" /\ ~signedIn /\ pass'[t] # pass[t])
            => /\ recordings'[CurId(t)].status # "failed"
               /\ pass'[t].pc # "incRetry" ]_vars

\* C36: without a reload of the page, a recording has status uploading only
\* while a sync pass is in progress: whenever isSyncing is false, no catalog
\* entry has status uploading.
C36_UploadingOnlyInPass ==
    ~isSyncing => \A i \in DOMAIN recordings : recordings[i].status # "uploading"

C36_Witness ==
    /\ ~isSyncing
    /\ \E i \in DOMAIN recordings : recordings[i].status = "failed"
    /\ \E i \in DOMAIN recordings : recordings[i].status = "synced"

\* the fragments of a payload
FragmentsOf(blob) == { blob[k] : k \in 1..Len(blob) }

\* the sessions a catalog entry comes from: the session named by a recovered
\* entry, the sessions whose fragments are in the payload of another entry
EntrySessions(i) ==
    IF recordings[i].recovered
    THEN {recordings[i].originalSessionId}
    ELSE { sid \in 1..MaxSessions :
             FragmentsOf(recordings[i].blob) \cap FragmentsOf(captured[sid]) # {} }

\* C37: each recording session yields at most one catalog entry, whether by a
\* normal stop, by crash recovery, or by a recovery that is itself cut short
\* by a page close and run again: no two catalog entries come from the same
\* session.
C37_OneEntryPerSession ==
    \A i, j \in DOMAIN recordings :
        i # j => EntrySessions(i) \cap EntrySessions(j) = {}

\* ------------------------------------------------------------ overlapping stops

\* js/recorder.js with calls of handleStop that may overlap
NextStops ==
    \/ StartInfo
    \/ Capture
    \/ TimerFlushInfo
    \/ HandleStopOverlap
    \/ StopEventInfo
    \/ OldStopEventInfo
    \/ ChunkRequestDoneInfo
    \/ HandleStopSaved

\* the stop event of a stopped MediaRecorder is delivered, and every request
\* to the store completes
FairStops ==
    /\ WF_vars(StopEventInfo)
    /\ WF_vars(OldStopEventInfo)
    /\ WF_vars(ChunkRequestDoneInfo)
    /\ WF_vars(HandleStopSaved)

SpecStops == InitSync /\ [][NextStops]_vars /\ FairStops

\* C38: overlapping stops. When stop() is called a second time while the
\* first call is still waiting for the stop event of the recorder, each of
\* the two calls eventually resolves or rejects.
C38_OverlappingStops ==
    \A k \in StopSlots :
        (/\ mediaRecorder.stopPending
         /\ hstop[k].pc = "wait"
         /\ \E u \in StopSlots \ {k} : hstop[u].pc = "wait")
            ~> (hstop[k].pc # "wait")

\* ------------------------------------------------------------ the update functions of the store

StoreStatuses == {"pending", "uploading", "synced", "failed"}
FileNames == {"a.webm", "b.webm"}
ExtraFields == {"driveFileId", "retryCount"}

\* the records saveRecording and the updates can have left in the store
StoredRecords ==
    { [ blob |-> <<1>>, fileName |-> fn, drivePath |-> "Voice", status |-> st,
        synced |-> IF st = "synced" THEN 1 ELSE 0, retryCount |-> n,
        driveFileId |-> IF st = "synced" THEN 1 ELSE NULL,
        recovered |-> FALSE, originalSessionId |-> NULL ] :
      fn \in FileNames, st \in StoreStatuses, n \in 0..(MaxStoreRetry - 1) }

InitStore ==
    /\ \E D \in SUBSET (1..MaxRec) : recordings \in [D -> StoredRecords]
    /\ nextId = MaxRec + 1
    /\ isSyncing = FALSE
    /\ pass = [ t \in Slots |-> IdlePass ]
    /\ online = TRUE
    /\ signedIn = FALSE
    /\ failures = [ i \in 1..MaxRec |-> 0 ]
    /\ lastCall = "none"
    /\ RecorderIdle
    /\ appPc = [ pc |-> "ready", list |-> <<>>, idx |-> 0, crashes |-> 0 ]

\* updateRecordingStatus(id, status, extraFields) called on the store
CallUpdate ==
    /\ \E id \in 1..MaxRec, status \in StoreStatuses, extras \in SUBSET ExtraFields,
          f \in FileIds, n \in 0..MaxStoreRetry :
         LET res == updateRecordingStatusResult(recordings, id)
         IN  /\ recordings' =
                   IF res = "rejected"
                   THEN recordings
                   ELSE updateRecordingStatus(recordings, id, status,
                          IF "driveFileId" \in extras THEN f ELSE recordings[id].driveFileId,
                          IF "retryCount" \in extras THEN n ELSE recordings[id].retryCount)
             /\ storeCall' = [ op |-> "update", id |-> id, extras |-> extras, result |-> res ]
    /\ UNCHANGED <<nextId, syncVars, recorderVars, driveVars, cleared, failedFlushes>>

\* incrementRetryCount(id) called on the store
CallIncrement ==
    /\ \E id \in 1..MaxRec :
         /\ id \in DOMAIN recordings => recordings[id].retryCount < MaxStoreRetry
         /\ recordings' = incrementRetryCount(recordings, id)
         /\ storeCall' = [ op |-> "increment", id |-> id, extras |-> {"retryCount"},
                           result |-> "resolved" ]
    /\ UNCHANGED <<nextId, syncVars, recorderVars, driveVars, cleared, failedFlushes>>

NextStore ==
    \/ CallUpdate
    \/ CallIncrement

SpecStore == InitStore /\ [][NextStore]_vars

\* C39: updateRecordingStatus changes only status, the synced flag and the
\* extra fields passed, of the addressed recording only: payload, fileName,
\* drivePath and every other recording stay as they are; incrementRetryCount
\* also leaves the status as it is; updateRecordingStatus on a missing id
\* rejects and changes nothing.
C39_UpdateFrame ==
    [][ LET c == storeCall'
        IN  /\ DOMAIN recordings' = DOMAIN recordings
            /\ \A i \in DOMAIN recordings : i # c.id => recordings'[i] = recordings[i]
            /\ c.id \in DOMAIN recordings =>
                  /\ recordings'[c.id].blob = recordings[c.id].blob
                  /\ recordings'[c.id].fileName = recordings[c.id].fileName
                  /\ recordings'[c.id].drivePath = recordings[c.id].drivePath
                  /\ recordings'[c.id].recovered = recordings[c.id].recovered
                  /\ recordings'[c.id].originalSessionId = recordings[c.id].originalSessionId
                  /\ "driveFileId" \notin c.extras
                        => recordings'[c.id].driveFileId = recordings[c.id].driveFileId
                  /\ "retryCount" \notin c.extras
                        => recordings'[c.id].retryCount = recordings[c.id].retryCount
                  /\ c.op = "increment"
                        => /\ recordings'[c.id].status = recordings[c.id].status
                           /\ recordings'[c.id].retryCount = recordings[c.id].retryCount + 1
                  /\ c.op = "update" => c.result = "resolved"
            /\ (c.op = "update" /\ c.id \notin DOMAIN recordings)
                  => c.result = "rejected" /\ recordings' = recordings ]_vars

\* C39 witness: in a store of two recordings, updateRecordingStatus(1, 'synced',
\* {driveFileId}) has resolved: the first recording is synced, the second one
\* is uploading as before
C39_Witness ==
    /\ DOMAIN recordings = {1, 2}
    /\ storeCall.op = "update" /\ storeCall.id = 1 /\ storeCall.result = "resolved"
    /\ storeCall.extras = {"driveFileId"}
    /\ recordings[1].status = "synced" /\ recordings[1].synced = 1
    /\ recordings[1].fileName # recordings[2].fileName
    /\ recordings[2].status = "uploading"

====
